---- MODULE Spec2Model ----
(***************************************************************************)
(* A model of rlox: the recursive-descent parser (src/src/parser/mod.rs),  *)
(* the tree-walking evaluator (src/src/eval.rs), the bytecode compiler     *)
(* (src/vm/src/compile.rs) and the stack VM (src/vm/src/vm.rs).            *)
(*                                                                         *)
(* and the parts around them: the command line (src/vm/src/main.rs), the  *)
(* objects of the heap (src/vm/src/gc/object.rs) and the earlier parser    *)
(* (src/src/parser.rs).                                                    *)
(*                                                                         *)
(* Eleven specifications share the module:                                 *)
(*   SpecParser  Parser::parse over a bounded token stream, one action per *)
(*               call of Iterator::next;                                   *)
(*   Spec        one program run by the evaluator (one action per          *)
(*               top-level statement) and then, compiled, by the VM (one   *)
(*               disjunct of decode_op per opcode handler);                *)
(*   SpecCompile Compiler::compile on programs with jumps, after a prefix  *)
(*               of statements that brings the chunk to 64 KiB;            *)
(*   SpecCall    VM::run on chunks that build a stack and end with a Call  *)
(*               or a Return;                                              *)
(*   SpecAssign  Expr::eval on one assignment, in environments that are    *)
(*               chains of frames;                                         *)
(*   SpecSyntax  Parser::parse on `for` statements and on expression       *)
(*               statements over every pair of operators;                  *)
(*   SpecCli     main: a script is read, parsed, and either its errors are *)
(*               shown or it is compiled and run;                          *)
(*   SpecStart   the allocations of Compiler::compile and VM::new, each of *)
(*               which may collect;                                        *)
(*   SpecLocal   Compiler::resolve_local on bounded lists of locals;       *)
(*   SpecImmediate  a raw word written by the compiler after Immediate and *)
(*               read back by the VM;                                      *)
(*   SpecEarlier Parser::parse of the earlier parser over a bounded token  *)
(*               stream.                                                   *)
(***************************************************************************)
EXTENDS Integers, Sequences, FiniteSets, TLC

VARIABLES
    mode,        \* which component is running: "parse", "eval", "expr", "compile",
                 \* "resolve", "new", "vm", "local", "earlier"
    \* ---- parser (Parser, Parser::parse locals)
    tokens,      \* the scanner's finite output, without the EOF sentinel
    pos,         \* number of tokens consumed from the peekable scanner
    statements,  \* parse(): statements
    errors,      \* parse(): errors; in main, the Err of parser::resolve too
    presult,     \* "running", "Ok" or "Err": what parse() returned
    lastcall,    \* bookkeeping of the latest parse_statement call
    \* ---- evaluator (StandardContext and the statement loop)
    program,     \* the statement list under execution
    epc,         \* index of the next top-level statement to evaluate
    env,         \* StandardContext.environment, a chain of frames, innermost last
    eout,        \* values printed by Context::println
    elog,        \* bindings written by bind / rebind, in order
    estatus,     \* "running", "ok", "err", "panic", "fuel", "unsupported"
    lastblock,   \* bookkeeping of the latest top-level Block evaluated
    lastexpr,    \* bookkeeping of the latest Expr::eval applied on its own
    \* ---- VM (VM, CallFrame and the chunk of the running function)
    chunk,       \* the chunk of main: [base, code: bytes, constants: pool]
    frames,      \* VM.frames, each [fn, ip, stack_start]
    stack,       \* VM.stack
    globals,     \* VM.globals, a function from names to values
    vout,        \* values printed by VM::print
    vlog,        \* globals written by set_global, in order
    vstatus,     \* "running", "done", "panic"
    steps,       \* opcodes dispatched so far
    lastop,      \* bookkeeping of the latest opcode handler
    \* ---- the process (main of src/vm/src/main.rs)
    proc,        \* [file, exited, status, stderr, checks]: the process, how it
                 \* ended, and the build it is
    \* ---- the arena of the collector (Gc)
    heap,        \* the objects that are allocated and not freed
    \* ---- a Compiler an operation is applied to on its own
    compiler,    \* [chunk, locals, scope_depth, st]
    probe        \* bookkeeping of the latest operation applied to it

pvars == <<tokens, pos, statements, errors, presult, lastcall>>
evars == <<program, epc, env, eout, elog, estatus, lastblock, lastexpr>>
vmvars == <<chunk, frames, stack, globals, vout, vlog, vstatus, steps, lastop>>
hvars == <<proc, heap, compiler, probe>>
vars == <<mode, pvars, evars, vmvars, hvars>>

(***************************************************************************)
(* Bounds of the model.                                                    *)
(***************************************************************************)
MaxNum == 1        \* number literals are 0..MaxNum
MaxLoop == 3       \* iterations an evaluator `while` may take before the run is cut
MaxSteps == 60     \* opcodes a VM run may dispatch before the run is cut
MaxTokens == 5     \* length of the token streams
MaxErrors == 3     \* errors parse() may hold when it takes one more that leaves the scanner in place
MaxFiller == 6554  \* statements `print 1;` that may precede a compiled program
MaxStack == 3      \* values on the stack VM::call is applied to
MaxArity == 2      \* operand of the Call the VM executes
MaxDepth == 2      \* frames of the environments an assignment is evaluated in
MaxSource == 3     \* tokens of the scripts given to the command line

(***************************************************************************)
(* Values.  One record shape for every variant, so that any two values can *)
(* be compared.                                                            *)
(***************************************************************************)
Nil == [t |-> "Nil", n |-> 0, s |-> ""]
True == [t |-> "True", n |-> 0, s |-> ""]
False == [t |-> "False", n |-> 0, s |-> ""]
Void == [t |-> "Void", n |-> 0, s |-> ""]
Number(n) == [t |-> "Number", n |-> n, s |-> ""]
String(s) == [t |-> "String", n |-> 0, s |-> s]

\* Value::truthy: false and nil are falsy, everything else is truthy.
truthy(v) == ~(v.t \in {"Nil", "False"})

(***************************************************************************)
(* Numbers.  A number is an f64.  The model writes Number(n) for the       *)
(* double of an integer n of at most 20 bits other than -0.0, and keeps    *)
(* the raw word of every other double: four limbs of 16 bits, least        *)
(* significant first.  Every NaN an operation gives is the one NaNRaw: the *)
(* sign and the payload of a NaN are not modelled.                         *)
(***************************************************************************)
\* floor(log2(n)) for n >= 1
RECURSIVE Log2(_)
Log2(n) == IF n <= 1 THEN 0 ELSE 1 + Log2(n \div 2)

\* Value::float(n).into_raw() for an integer n of at most 20 bits: the IEEE-754
\* double as four 16-bit limbs, least significant first.  The low 32 bits of
\* the mantissa are zero; the high 20 bits fill limb 3 (with sign and
\* exponent) and limb 2.
FloatRaw(n) ==
    IF n = 0 THEN <<0, 0, 0, 0>>
    ELSE LET a == IF n < 0 THEN 0 - n ELSE n
             e == Log2(a)
             m == (a - (2 ^ (e))) * (2 ^ (20 - e))
             sign == IF n < 0 THEN 1 ELSE 0 IN
         <<0, 0, m % 65536, sign * 32768 + (1023 + e) * 16 + (m \div 65536)>>

\* Value::from_raw on a raw word that holds a double with an integer value
FloatOfRaw(raw) ==
    IF raw = <<0, 0, 0, 0>> THEN 0
    ELSE LET e == ((raw[4] \div 16) % 2048) - 1023
             m == (raw[4] % 16) * 65536 + raw[3]
             a == (2 ^ (e)) + (m \div (2 ^ (20 - e))) IN
         IF raw[4] >= 32768 THEN 0 - a ELSE a

\* whether a raw word is the double of an integer of at most 20 bits
IsIntegerRaw(raw) ==
    \/ raw = <<0, 0, 0, 0>>
    \/ /\ (((raw[4] \div 16) % 2048) - 1023) \in 0..20
       /\ raw = FloatRaw(FloatOfRaw(raw))

\* Value::from_raw and Value::into_raw: a value is its raw word; the model
\* keeps the word itself when it is not the double of such an integer
from_raw(raw) ==
    IF IsIntegerRaw(raw) THEN Number(FloatOfRaw(raw)) ELSE [t |-> "Float", raw |-> raw]
into_raw(v) == IF v.t = "Number" THEN FloatRaw(v.n) ELSE v.raw

\* whether a value is a number
IsNumber(v) == v.t \in {"Number", "Float"}

\* The arithmetic of f64 (IEEE 754 binary64, round to nearest, ties to even)
\* on raw words.  A natural number of any size is the sequence of its limbs
\* of twelve bits, least significant first, without a leading zero limb.
Limb == 2 ^ 12

\* F applied to the value of the one element of S
With(S, F(_)) == CHOOSE r \in {F(v) : v \in S} : TRUE

BigAt(a, i) == IF i >= 1 /\ i <= Len(a) THEN a[i] ELSE 0

\* the function f on 1..n as the sequence of its values
AsSeq(f) == f \o <<>>

\* a without its leading zero limbs
BigTrim(a) ==
    SubSeq(a, 1, CHOOSE k \in 0..Len(a) :
                    /\ k = 0 \/ a[k] # 0
                    /\ \A j \in (k + 1)..Len(a) : a[j] = 0)

\* The limbs of the number whose i-th column holds cols[i], a natural below
\* 2^29.  Each column hands what it holds above twelve bits to the next
\* (BigSpread); after three rounds no column holds more than Limb, and a
\* column takes a carry when a lower one holds Limb and all between hold
\* Limb - 1 or more.
BigSpread(cols) ==
    AsSeq([i \in 1..(Len(cols) + 1) |-> (BigAt(cols, i) % Limb) + (BigAt(cols, i - 1) \div Limb)])
BigCarried(cols) ==
    [i \in 1..Len(cols) |->
        (cols[i] + (IF \E j \in 1..(i - 1) :
                          /\ cols[j] = Limb
                          /\ \A m \in (j + 1)..(i - 1) : cols[m] >= Limb - 1
                    THEN 1 ELSE 0)) % Limb]
BigNorm(cols) ==
    With({BigSpread(BigSpread(BigSpread(AsSeq(cols))))}, LAMBDA v : BigTrim(AsSeq(BigCarried(v))))

BigAdd(a, b) ==
    BigNorm([i \in 1..(IF Len(a) > Len(b) THEN Len(a) ELSE Len(b)) |-> BigAt(a, i) + BigAt(b, i)])

\* a - b for a >= b: a limb lends one when a lower limb of a is below that
\* of b and none between is above
BigSub(a, b) ==
    BigTrim(AsSeq([i \in 1..Len(a) |->
        (a[i] - BigAt(b, i)
              - (IF \E j \in 1..(i - 1) :
                       /\ a[j] < BigAt(b, j)
                       /\ \A m \in (j + 1)..(i - 1) : a[m] <= BigAt(b, m)
                 THEN 1 ELSE 0)) % Limb]))

\* a < b
BigLess(a, b) ==
    IF Len(a) # Len(b) THEN Len(a) < Len(b)
    ELSE \E i \in 1..Len(a) :
            /\ a[i] < b[i]
            /\ \A j \in (i + 1)..Len(a) : a[j] = b[j]

RECURSIVE BigColumn(_, _, _, _)
\* the k-th column of a * b, summed from the i-th limb of a on
BigColumn(a, b, k, i) ==
    IF i > Len(a) \/ i > k THEN 0
    ELSE a[i] * BigAt(b, k - i + 1) + BigColumn(a, b, k, i + 1)
BigMul(a, b) ==
    IF a = <<>> \/ b = <<>> THEN <<>>
    ELSE BigNorm([k \in 1..(Len(a) + Len(b) - 1) |-> BigColumn(a, b, k, 1)])

\* the number of bits of a limb, and of a number
LimbBits(v) == IF v = 0 THEN 0 ELSE CHOOSE k \in 1..12 : 2 ^ (k - 1) <= v /\ v < 2 ^ k
BigBits(a) == IF a = <<>> THEN 0 ELSE 12 * (Len(a) - 1) + LimbBits(a[Len(a)])

\* bit i of a, the least significant being bit 1
BigBit(a, i) == (BigAt(a, ((i - 1) \div 12) + 1) \div (2 ^ ((i - 1) % 12))) % 2

\* a * 2^k and a \div 2^k
BigShl(a, k) ==
    IF a = <<>> THEN <<>>
    ELSE BigNorm([i \in 1..(Len(a) + k \div 12) |->
                    IF i <= k \div 12 THEN 0 ELSE a[i - k \div 12] * 2 ^ (k % 12)])
BigShr(a, k) ==
    IF k >= BigBits(a) THEN <<>>
    ELSE BigTrim([i \in 1..(Len(a) - k \div 12) |->
                    (a[i + k \div 12] \div (2 ^ (k % 12)))
                    + (BigAt(a, i + k \div 12 + 1) % (2 ^ (k % 12))) * 2 ^ (12 - (k % 12))])

\* some bit of a among its lowest k is set
BigLowBits(a, k) ==
    \/ \E i \in 1..Len(a) : i <= k \div 12 /\ a[i] # 0
    \/ BigAt(a, k \div 12 + 1) % (2 ^ (k % 12)) # 0

\* long division of n by d in digits of six bits, the digits of n taken from
\* digit i down: the quotient (q) and the remainder (r) of the digits taken so
\* far; mult[t] is t * d
BigDigit(n, i) == (BigAt(n, ((i - 1) \div 2) + 1) \div (64 ^ ((i - 1) % 2))) % 64
\* one digit more: r2 is the remainder so far with the next digit of n
\* appended, t the digit of the quotient
BigDivDigit(mult, q, r2, t) == <<BigAdd(BigMul(q, <<64>>), <<t>>), BigSub(r2, mult[t])>>
BigDivStep(mult, q, r2) ==
    BigDivDigit(mult, q, r2,
                CHOOSE u \in 0..63 : ~BigLess(r2, mult[u]) /\ BigLess(r2, mult[u + 1]))
RECURSIVE BigDivFrom(_, _, _, _, _)
BigDivFrom(n, mult, i, q, r) ==
    IF i = 0 THEN [q |-> q, r |-> r]
    ELSE With({BigDivStep(mult, q, BigAdd(BigMul(r, <<64>>), <<BigDigit(n, i)>>))},
              LAMBDA p : BigDivFrom(n, mult, i - 1, p[1], p[2]))
\* the number of digits of the quotient of n by d
BigDivDigits(n, d) ==
    IF BigBits(n) < BigBits(d) THEN 0 ELSE (BigBits(n) - BigBits(d) + 6) \div 6
BigDiv(n, d) ==
    With({<<n, [t \in 0..64 |-> BigMul(d, <<t>>)], BigDivDigits(n, d)>>}, LAMBDA p :
        BigDivFrom(p[1], p[2], p[3], <<>>, BigShr(p[1], 6 * p[3])))

\* a raw word is four limbs of sixteen bits: its low 63 bits as a number,
\* and back
RawBig(raw) ==
    BigTrim(<<raw[1] % 4096,
              raw[1] \div 4096 + (raw[2] % 256) * 16,
              raw[2] \div 256 + (raw[3] % 16) * 256,
              raw[3] \div 16,
              raw[4] % 4096,
              (raw[4] \div 4096) % 8>>)
BigRaw(a) ==
    <<BigAt(a, 1) + (BigAt(a, 2) % 16) * 4096,
      BigAt(a, 2) \div 16 + (BigAt(a, 3) % 256) * 256,
      BigAt(a, 3) \div 256 + BigAt(a, 4) * 16,
      BigAt(a, 5) + (BigAt(a, 6) % 16) * 4096>>

NaNRaw == <<0, 0, 0, 32760>>
InfRaw(s) == <<0, 0, 0, s * 32768 + 32752>>
ZeroRaw(s) == <<0, 0, 0, s * 32768>>

\* a double taken apart: its sign, its class, and for a finite one the
\* natural n and the exponent e with |x| = n * 2^e; be is the biased
\* exponent of the word and frac its fraction
Unpacked(raw, s, be, frac) ==
    IF be = 2047
    THEN [s |-> s, cls |-> IF frac = <<>> THEN "inf" ELSE "nan", n |-> <<>>, e |-> 0]
    ELSE IF be = 0
    THEN [s |-> s, cls |-> IF frac = <<>> THEN "zero" ELSE "fin", n |-> frac, e |-> 0 - 1074]
    ELSE [s |-> s, cls |-> "fin",
          n |-> RawBig(<<raw[1], raw[2], raw[3], (raw[4] % 16) + 16>>),
          e |-> be - 1075]
Unpack(raw) ==
    With({<<raw[4] \div 32768, (raw[4] \div 16) % 2048,
            RawBig(<<raw[1], raw[2], raw[3], raw[4] % 16>>)>>},
         LAMBDA p : Unpacked(raw, p[1], p[2], p[3]))

\* the double nearest to (-1)^s * (n * 2^e + a little, when sticky), ties to
\* even; sticky is only given with an n of 55 bits or more.  top is the
\* exponent of the leading bit of n, drop the number of low bits of n that
\* do not fit, kept the others, word the exponent field with the kept bits
\* added to it.
RoundWord(s, top, word) ==
    IF top > 1023 \/ Len(word) > 6 \/ BigAt(word, 6) >= 8
          \/ BigAt(word, 5) \div 16 + BigAt(word, 6) * 256 >= 2047
    THEN InfRaw(s)
    ELSE [BigRaw(word) EXCEPT ![4] = @ + s * 32768]
RoundsUp(n, sticky, drop, kept) ==
    /\ drop >= 1 /\ BigBit(n, drop) = 1
    /\ \/ sticky
       \/ drop >= 2 /\ BigLowBits(n, drop - 1)
       \/ BigBit(kept, 1) = 1
RoundKept(s, n, sticky, top, drop, kept) ==
    With({BigAdd(<<0, 0, 0, 0,
                   ((IF top >= 0 - 1022 THEN top + 1022 ELSE 0) % 256) * 16,
                   (IF top >= 0 - 1022 THEN top + 1022 ELSE 0) \div 256>>,
                 IF RoundsUp(n, sticky, drop, kept) THEN BigAdd(kept, <<1>>) ELSE kept)},
         LAMBDA word : RoundWord(s, top, word))
RoundDrop(s, n, sticky, top, drop) ==
    With({IF drop <= 0 THEN BigShl(n, 0 - drop) ELSE BigShr(n, drop)},
         LAMBDA kept : RoundKept(s, n, sticky, top, drop, kept))
RoundTop(s, n, e, sticky, top) ==
    RoundDrop(s, n, sticky, top,
              IF top >= 0 - 1022 THEN BigBits(n) - 53 ELSE (0 - 1074) - e)
RoundPack(s, n, e, sticky) ==
    IF n = <<>> THEN ZeroRaw(s)
    ELSE With({e + BigBits(n) - 1}, LAMBDA top : RoundTop(s, n, e, sticky, top))

\* the result of an operation before it is rounded: a raw word, or the
\* number (-1)^s * n * 2^e (and a little more, when sticky)
Exactly(raw) == [raw |-> raw, s |-> 0, n |-> <<>>, e |-> 0, sticky |-> FALSE, done |-> TRUE]
Nearly(s, n, e, sticky) ==
    [raw |-> NaNRaw, s |-> s, n |-> n, e |-> e, sticky |-> sticky, done |-> FALSE]
Rounded(r) == IF r.done THEN r.raw ELSE RoundPack(r.s, r.n, r.e, r.sticky)

\* -x
FloatNeg(x) ==
    IF Unpack(x).cls = "nan" THEN NaNRaw
    ELSE [x EXCEPT ![4] = IF @ >= 32768 THEN @ - 32768 ELSE @ + 32768]

\* the sum of two finite numbers that are not zero, big the one with the
\* larger exponent and hn its n at the exponent of lo
AddAligned(big, lo, hn) ==
    IF big.s = lo.s THEN Nearly(big.s, BigAdd(hn, lo.n), lo.e, FALSE)
    ELSE IF hn = lo.n THEN Exactly(ZeroRaw(0))
    ELSE IF BigLess(hn, lo.n) THEN Nearly(lo.s, BigSub(lo.n, hn), lo.e, FALSE)
    ELSE Nearly(big.s, BigSub(hn, lo.n), lo.e, FALSE)
\* an operand more than 120 binary places below the other only tells on
\* which side of it the sum lies
AddOrdered(big, small) ==
    With({IF big.e - small.e > 120 THEN [small EXCEPT !.n = <<1>>, !.e = big.e - 120]
          ELSE small},
         LAMBDA lo : With({BigShl(big.n, big.e - lo.e)},
                          LAMBDA hn : AddAligned(big, lo, hn)))
AddUnpacked(x, y, ux, uy) ==
    CASE ux.cls = "nan" \/ uy.cls = "nan" -> Exactly(NaNRaw)
      [] ux.cls = "inf" /\ uy.cls = "inf" -> Exactly(IF ux.s = uy.s THEN x ELSE NaNRaw)
      [] ux.cls = "inf" -> Exactly(x)
      [] uy.cls = "inf" -> Exactly(y)
      [] ux.cls = "zero" /\ uy.cls = "zero" ->
            Exactly(ZeroRaw(IF ux.s = 1 /\ uy.s = 1 THEN 1 ELSE 0))
      [] ux.cls = "zero" -> Exactly(y)
      [] uy.cls = "zero" -> Exactly(x)
      [] OTHER -> AddOrdered(IF ux.e >= uy.e THEN ux ELSE uy,
                             IF ux.e >= uy.e THEN uy ELSE ux)
MulUnpacked(ux, uy) ==
    CASE ux.cls = "nan" \/ uy.cls = "nan" -> Exactly(NaNRaw)
      [] ux.cls = "inf" \/ uy.cls = "inf" ->
            Exactly(IF ux.cls = "zero" \/ uy.cls = "zero" THEN NaNRaw
                    ELSE InfRaw((ux.s + uy.s) % 2))
      [] ux.cls = "zero" \/ uy.cls = "zero" -> Exactly(ZeroRaw((ux.s + uy.s) % 2))
      [] OTHER -> Nearly((ux.s + uy.s) % 2, BigMul(ux.n, uy.n), ux.e + uy.e, FALSE)
\* the quotient of two finite numbers that are not zero, to 56 bits or more
DivShifted(ux, uy, k) ==
    With({BigDiv(BigShl(ux.n, k), uy.n)},
         LAMBDA qr : Nearly((ux.s + uy.s) % 2, qr.q, ux.e - uy.e - k, qr.r # <<>>))
DivUnpacked(ux, uy) ==
    CASE ux.cls = "nan" \/ uy.cls = "nan" -> Exactly(NaNRaw)
      [] ux.cls = "inf" ->
            Exactly(IF uy.cls = "inf" THEN NaNRaw ELSE InfRaw((ux.s + uy.s) % 2))
      [] uy.cls = "inf" -> Exactly(ZeroRaw((ux.s + uy.s) % 2))
      [] uy.cls = "zero" ->
            Exactly(IF ux.cls = "zero" THEN NaNRaw ELSE InfRaw((ux.s + uy.s) % 2))
      [] ux.cls = "zero" -> Exactly(ZeroRaw((ux.s + uy.s) % 2))
      [] OTHER -> DivShifted(ux, uy, 56 + BigBits(uy.n) - BigBits(ux.n))

\* x + y, x - y, x * y, x / y on raw words: the operands are taken apart
\* once and the exact result is rounded once
FloatOp(op, x, y, ux, uy) ==
    Rounded(CASE op = "Plus" -> AddUnpacked(x, y, ux, uy)
              [] op = "Star" -> MulUnpacked(ux, uy)
              [] op = "Slash" -> DivUnpacked(ux, uy))
FloatArith(op, x, y) ==
    With({<<Unpack(x), Unpack(y)>>}, LAMBDA u : FloatOp(op, x, y, u[1], u[2]))
ArithRaw(op, x, y) ==
    FloatArith(IF op = "Minus" THEN "Plus" ELSE op, x,
               IF op = "Minus" THEN FloatNeg(y) ELSE y)

\* x < y
LessUnpacked(x, y, ux, uy) ==
    CASE ux.cls = "nan" \/ uy.cls = "nan" -> FALSE
      [] ux.cls = "zero" /\ uy.cls = "zero" -> FALSE
      [] ux.s # uy.s -> ux.s = 1
      [] ux.s = 0 -> BigLess(RawBig(x), RawBig(y))
      [] OTHER -> BigLess(RawBig(y), RawBig(x))
\* x == y
EqUnpacked(x, y, ux, uy) ==
    /\ ux.cls # "nan" /\ uy.cls # "nan"
    /\ x = y \/ (ux.cls = "zero" /\ uy.cls = "zero")
FloatLess(x, y) ==
    With({<<Unpack(x), Unpack(y)>>}, LAMBDA u : LessUnpacked(x, y, u[1], u[2]))
FloatEq(x, y) ==
    With({<<Unpack(x), Unpack(y)>>}, LAMBDA u : EqUnpacked(x, y, u[1], u[2]))

\* the operators of f64 on values.  Small integers whose result is an
\* integer are computed as integers, which is what the doubles give; every
\* other case goes through the raw words.
Abs(n) == IF n < 0 THEN 0 - n ELSE n
Small(v) == v.t = "Number" /\ Abs(v.n) <= 1024
ExactInt(op, x, y) ==
    CASE op = "Star" -> x * y # 0 \/ (x >= 0 /\ y >= 0)
      [] op = "Slash" -> y # 0 /\ x % Abs(y) = 0 /\ (x # 0 \/ y > 0)
      [] OTHER -> TRUE

\* `a op b` on two doubles
Arith(op, a, b) ==
    IF Small(a) /\ Small(b) /\ ExactInt(op, a.n, b.n)
    THEN Number(CASE op = "Plus" -> a.n + b.n
                  [] op = "Minus" -> a.n - b.n
                  [] op = "Star" -> a.n * b.n
                  [] op = "Slash" ->
                        (IF (a.n < 0) = (b.n < 0) THEN 1 ELSE 0 - 1)
                            * (Abs(a.n) \div Abs(b.n)))
    ELSE With({ArithRaw(op, into_raw(a), into_raw(b))}, LAMBDA r : from_raw(r))

\* the comparisons of f64 on raw words
CompareRaw(op, x, y) ==
    CASE op = "GreaterThan" -> FloatLess(y, x)
      [] op = "GreaterThanEq" -> FloatLess(y, x) \/ FloatEq(x, y)
      [] op = "LessThan" -> FloatLess(x, y)
      [] op = "LessThanEq" -> FloatLess(x, y) \/ FloatEq(x, y)

\* `a op b` on two doubles, op a comparison
Compare(op, a, b) ==
    IF a.t = "Number" /\ b.t = "Number"
    THEN CASE op = "GreaterThan" -> a.n > b.n
           [] op = "GreaterThanEq" -> a.n >= b.n
           [] op = "LessThan" -> a.n < b.n
           [] op = "LessThanEq" -> a.n <= b.n
    ELSE CompareRaw(op, into_raw(a), into_raw(b))

\* `-v` on a double
Negated(v) ==
    IF v.t = "Number" /\ v.n # 0 THEN Number(0 - v.n)
    ELSE With({FloatNeg(into_raw(v))}, LAMBDA r : from_raw(r))

\* equality of values: of doubles by IEEE 754, of the rest by identity
Equals(a, b) ==
    IF IsNumber(a) /\ IsNumber(b)
    THEN IF a.t = "Number" /\ b.t = "Number" THEN a.n = b.n
         ELSE FloatEq(into_raw(a), into_raw(b))
    ELSE a = b

(***************************************************************************)
(* AST.                                                                     *)
(***************************************************************************)
Unresolved == [kind |-> "Unresolved", d |-> 0]
Global == [kind |-> "Global", d |-> 0]
Local(d) == [kind |-> "Local", d |-> d]

Literal(v) == [k |-> "Literal", value |-> v]
Var(name) == [k |-> "Var", name |-> name, scope |-> Unresolved]
Assign(name, e) == [k |-> "Assign", name |-> name, scope |-> Unresolved, expr |-> e]
Binary(op, l, r) == [k |-> "Binary", operator |-> op, lhs |-> l, rhs |-> r]
Logical(op, l, r) == [k |-> "Logical", operator |-> op, lhs |-> l, rhs |-> r]
Unary(op, e) == [k |-> "Unary", operator |-> op, unary |-> e]
Grouping(e) == [k |-> "Grouping", inner |-> e]
Call(callee, args) == [k |-> "Call", callee |-> callee, arguments |-> args]

SExpr(e) == [k |-> "SExpr", expr |-> e]
SPrint(e) == [k |-> "SPrint", expr |-> e]
SVar(name, e) == [k |-> "SVar", name |-> name, scope |-> Unresolved, expr |-> e]
Block(stmts) == [k |-> "Block", stmts |-> stmts]
\* else_clause is an Option: the empty sequence or a sequence of one statement
If(c, t, e) == [k |-> "If", cond |-> c, then_clause |-> t, else_clause |-> e]
While(c, b) == [k |-> "While", cond |-> c, body |-> b]
Return(e) == [k |-> "Return", expr |-> e]
\* Stmt::Function: a function declaration, of which the model keeps the name
SFunction(name) == [k |-> "Function", name |-> name]

(***************************************************************************)
(* Environment of the evaluator: a chain of frames, innermost last.  Each  *)
(* frame is a function from the names it binds to their values.            *)
(***************************************************************************)
EmptyFrame == [n \in {} |-> Nil]
EnvNew == <<EmptyFrame>>
EnvExtend(e) == Append(e, EmptyFrame)
EnvHasParent(e) == Len(e) > 1
EnvParent(e) == SubSeq(e, 1, Len(e) - 1)
EnvDefines(e, name) == \E i \in 1..Len(e) : name \in DOMAIN e[i]
EnvNearest(e, name) ==
    CHOOSE i \in 1..Len(e) :
        /\ name \in DOMAIN e[i]
        /\ \A j \in (i + 1)..Len(e) : name \notin DOMAIN e[j]
EnvLookup(e, name) == e[EnvNearest(e, name)][name]
EnvBind(e, name, v) ==
    [e EXCEPT ![Len(e)] =
        [n \in (DOMAIN e[Len(e)]) \cup {name} |->
            IF n = name THEN v ELSE e[Len(e)][n]]]
EnvRebind(e, name, v) ==
    [e EXCEPT ![EnvNearest(e, name)] = [@ EXCEPT ![name] = v]]

(***************************************************************************)
(* Evaluator (src/src/eval.rs).  A context is [env, out, log]; a result is *)
(* [st, v, ctx] with st "ok", "err" (a Result::Err), "panic" (an           *)
(* unimplemented!() arm), "unsupported" (a node the evaluator's AST does   *)
(* not have) or "fuel" (the run was cut by MaxLoop).                        *)
(***************************************************************************)
Ctx(e, o, l) == [env |-> e, out |-> o, log |-> l]
Res(st, v, ctx) == [st |-> st, v |-> v, ctx |-> ctx]
Ok(v, ctx) == Res("ok", v, ctx)
Err(msg, ctx) == Res("err", String(msg), ctx)

\* a push_env that keeps the current frame instead of extending the chain
push_envKeepsFrame(ctx) == ctx

\* StandardContext::push_env
push_env(ctx) == [ctx EXCEPT !.env = EnvExtend(ctx.env)]

\* StandardContext::pop_env
pop_env(ctx) ==
    IF EnvHasParent(ctx.env) THEN [ctx EXCEPT !.env = EnvParent(ctx.env)] ELSE ctx

\* StandardContext::println
println(ctx, v) == [ctx EXCEPT !.out = Append(ctx.out, v)]

CompareOps == {"GreaterThan", "GreaterThanEq", "LessThan", "LessThanEq"}

\* macro numeric_binary_op!
numeric_binary_op(op, lhs, rhs, ctx) ==
    CASE IsNumber(lhs) /\ IsNumber(rhs) -> Ok(Arith(op, lhs, rhs), ctx)
      [] IsNumber(lhs) /\ ~IsNumber(rhs) ->
            Err("Invalid operand on lhs, expected number", ctx)
      [] ~IsNumber(lhs) /\ IsNumber(rhs) ->
            Err("Invalid operand on rhs, expected number", ctx)
      [] OTHER -> Err("Invalid operands, expected number or string", ctx)

\* macro comparison_op!
comparison_op(op, lhs, rhs, ctx) ==
    IF IsNumber(lhs) /\ IsNumber(rhs)
    THEN IF Compare(op, lhs, rhs) THEN Ok(True, ctx) ELSE Ok(False, ctx)
    ELSE Err("Invalid operands, expected number", ctx)

\* Binary::eval, the match on the operator once both operands are evaluated
binary_op(op, lhs, rhs, ctx) ==
    CASE op = "Plus" ->
            IF lhs.t = "String" /\ rhs.t = "String"
            THEN Ok(String(lhs.s \o rhs.s), ctx)
            ELSE numeric_binary_op(op, lhs, rhs, ctx)
      [] op \in {"Minus", "Star", "Slash"} -> numeric_binary_op(op, lhs, rhs, ctx)
      [] op \in CompareOps -> comparison_op(op, lhs, rhs, ctx)
      [] OTHER -> Res("panic", String("not implemented: ==, !="), ctx)

\* Unary::eval, the match on the operator once the operand is evaluated
unary_op(op, operand, ctx) ==
    IF op = "Minus"
    THEN IF IsNumber(operand)
         THEN Ok(Negated(operand), ctx)
         ELSE Err("Invalid operand for operator '-', expected number", ctx)
    ELSE IF truthy(operand) THEN Ok(False, ctx) ELSE Ok(True, ctx)

\* Logical::eval: whether the left operand decides the result
shortcircuit(op, lhs) == IF op = "And" THEN ~truthy(lhs) ELSE truthy(lhs)

\* an Assign arm that binds the name in the innermost frame, as Stmt::Var
\* does, whether or not a binding exists: what C15 rules out
EvalAssignBinds(var, lhs) ==
    Ok(lhs.v, [lhs.ctx EXCEPT !.env = EnvBind(lhs.ctx.env, var, lhs.v),
                              !.log = Append(lhs.ctx.log, <<var, lhs.v>>)])

\* Expr::eval, the Assign arm once the right-hand side has the value lhs.v:
\* `if env.rebind(var, lhs.clone()) { Ok(lhs) } else { Err(UndefinedVariable) }`
EvalAssign(var, lhs) ==
    IF EnvDefines(lhs.ctx.env, var)
    THEN Ok(lhs.v, [lhs.ctx EXCEPT !.env = EnvRebind(lhs.ctx.env, var, lhs.v),
                                   !.log = Append(lhs.ctx.log, <<var, lhs.v>>)])
    ELSE Err("UndefinedVariable", lhs.ctx)

\* The `?` operator on the result of an eval: continue with K on Ok, return
\* the Err
Then(r, K(_)) == With({r}, LAMBDA x : IF x.st # "ok" THEN x ELSE K(x))

RECURSIVE EvalExpr(_, _)
\* impl Eval for Expr, Binary, Logical, Unary, Value
EvalExpr(e, ctx) ==
    CASE e.k = "Grouping" -> EvalExpr(e.inner, ctx)
      [] e.k = "Literal" -> Ok(e.value, ctx)
      [] e.k = "Var" ->
            IF EnvDefines(ctx.env, e.name)
            THEN Ok(EnvLookup(ctx.env, e.name), ctx)
            ELSE Err("UndefinedVariable", ctx)
      [] e.k = "Assign" ->
            Then(EvalExpr(e.expr, ctx), LAMBDA lhs : EvalAssign(e.name, lhs))
      [] e.k = "Binary" ->
            Then(EvalExpr(e.lhs, ctx), LAMBDA lhs :
            Then(EvalExpr(e.rhs, lhs.ctx), LAMBDA rhs :
                binary_op(e.operator, lhs.v, rhs.v, rhs.ctx)))
      [] e.k = "Logical" ->
            Then(EvalExpr(e.lhs, ctx), LAMBDA lhs :
                IF shortcircuit(e.operator, lhs.v) THEN Ok(lhs.v, lhs.ctx)
                ELSE EvalExpr(e.rhs, lhs.ctx))
      [] e.k = "Unary" ->
            Then(EvalExpr(e.unary, ctx), LAMBDA operand :
                unary_op(e.operator, operand.v, operand.ctx))
      [] OTHER -> Res("unsupported", Void, ctx)

RECURSIVE EvalStmt(_, _, _)
RECURSIVE EvalStmts(_, _, _)
RECURSIVE EvalWhile(_, _, _)

\* Stmt::eval, the Block arm: push, run the statements with `?`, pop
EvalBlock(stmts, ctx, fuel) ==
    Then(EvalStmts(stmts, push_env(ctx), fuel), LAMBDA r : Ok(Void, pop_env(r.ctx)))

\* impl Eval for Stmt
EvalStmt(s, ctx, fuel) ==
    CASE s.k = "SExpr" ->
            Then(EvalExpr(s.expr, ctx), LAMBDA r : Ok(Void, r.ctx))
      [] s.k = "SPrint" ->
            Then(EvalExpr(s.expr, ctx), LAMBDA r : Ok(Void, println(r.ctx, r.v)))
      [] s.k = "SVar" ->
            Then(EvalExpr(s.expr, ctx), LAMBDA r :
                Ok(Void, [r.ctx EXCEPT
                              !.env = EnvBind(r.ctx.env, s.name, r.v),
                              !.log = Append(r.ctx.log, <<s.name, r.v>>)]))
      [] s.k = "Block" -> EvalBlock(s.stmts, ctx, fuel)
      [] s.k = "If" ->
            Then(EvalExpr(s.cond, ctx), LAMBDA c :
                IF truthy(c.v)
                THEN Then(EvalStmt(s.then_clause, c.ctx, fuel),
                          LAMBDA r : Ok(Void, r.ctx))
                ELSE IF s.else_clause # <<>>
                     THEN Then(EvalStmt(s.else_clause[1], c.ctx, fuel),
                               LAMBDA r : Ok(Void, r.ctx))
                     ELSE Ok(Void, c.ctx))
      [] s.k = "While" -> EvalWhile(s, ctx, fuel)
      [] OTHER -> Res("unsupported", Void, ctx)

\* the loop of the While arm; fuel bounds the iterations the model follows
EvalWhile(s, ctx, fuel) ==
    Then(EvalExpr(s.cond, ctx), LAMBDA c :
        IF ~truthy(c.v) THEN Ok(Void, c.ctx)
        ELSE IF fuel = 0 THEN Res("fuel", Void, c.ctx)
        ELSE Then(EvalStmt(s.body, c.ctx, fuel),
                  LAMBDA r : EvalWhile(s, r.ctx, fuel - 1)))

\* the `for inner in stmts.iter() { inner.eval(context)?; }` loops
EvalStmts(stmts, ctx, fuel) ==
    IF stmts = <<>> THEN Ok(Void, ctx)
    ELSE Then(EvalStmt(Head(stmts), ctx, fuel),
              LAMBDA r : EvalStmts(Tail(stmts), r.ctx, fuel))


(***************************************************************************)
(* Parser (src/src/parser/mod.rs).  The scanner's output is a sequence of  *)
(* items [ty, value, n]; ty "Error" is a Some(Err(..)) item; the end of    *)
(* the sequence reads as EOF.  p is the number of items consumed.  A       *)
(* parsing function returns [ok, pos, node, err].                           *)
(***************************************************************************)
Tok(ty) == [ty |-> ty, value |-> "", n |-> 0]
TokNumber(n) == [ty |-> "Number", value |-> "", n |-> n]

NoError == [kind |-> "None", tok |-> "", before |-> ""]
SyntaxError(kind) == [kind |-> kind, tok |-> "", before |-> ""]
Missing(ty, before) == [kind |-> "Missing", tok |-> ty, before |-> before]

POk(p, node) == [ok |-> TRUE, pos |-> p, node |-> node, err |-> NoError]
PErr(p, err) == [ok |-> FALSE, pos |-> p, node |-> Literal(Nil), err |-> err]

\* Parser::peek_type
peek_type(ts, p) ==
    IF p < Len(ts)
    THEN IF ts[p + 1].ty = "Error"
         THEN [ok |-> FALSE, ty |-> "Error"]
         ELSE [ok |-> TRUE, ty |-> ts[p + 1].ty]
    ELSE [ok |-> TRUE, ty |-> "EOF"]

\* Parser::advance: scanner.next(), an UnexpectedEOF error at the end
advance(ts, p) ==
    IF p < Len(ts)
    THEN [ok |-> ts[p + 1].ty # "Error", pos |-> p + 1, tok |-> ts[p + 1]]
    ELSE [ok |-> FALSE, pos |-> p, tok |-> Tok("EOF")]

\* Parser::has_next
has_next(ts, p) ==
    IF peek_type(ts, p).ok THEN peek_type(ts, p).ty # "EOF" ELSE TRUE

\* the error of a failed `self.peek_type()?`
ScanError == SyntaxError("ScanError")

\* The `?` operator on a parsing result: continue with K on Ok, return the Err
Try(r, K(_)) == IF r.ok THEN K(r) ELSE r

\* `self.peek_type()?`: continue with K on the type, return the scanner's error
TryPeek(ts, p, K(_)) ==
    IF peek_type(ts, p).ok THEN K(peek_type(ts, p).ty) ELSE PErr(p, ScanError)

\* Parser::expect
expect(ts, p, token_type, before) ==
    TryPeek(ts, p, LAMBDA ty :
        IF ty = token_type
        THEN POk(advance(ts, p).pos, Literal(Nil))
        ELSE PErr(p, Missing(token_type, before)))

\* TokenType::into_binary / into_logical / into_unary
into_operator(ty) == IF ty = "EqualEq" THEN "Equal" ELSE ty

\* The instances of __binary_rule!, outermost first:
\* logical_or, logical_and, equality, comparison, term, factor.
RuleCount == 6
\* the rules with the tokens of term and factor taken for each other
RuleTokensSwapped(level) ==
    CASE level = 1 -> {"Or"}
      [] level = 2 -> {"And"}
      [] level = 3 -> {"BangEq", "EqualEq"}
      [] level = 4 -> {"GreaterThan", "GreaterThanEq", "LessThan", "LessThanEq"}
      [] level = 5 -> {"Slash", "Star"}
      [] level = 6 -> {"Plus", "Minus"}

RuleTokens(level) ==
    CASE level = 1 -> {"Or"}
      [] level = 2 -> {"And"}
      [] level = 3 -> {"BangEq", "EqualEq"}
      [] level = 4 -> {"GreaterThan", "GreaterThanEq", "LessThan", "LessThanEq"}
      [] level = 5 -> {"Plus", "Minus"}
      [] level = 6 -> {"Slash", "Star"}
RuleCons(level, op, l, r) ==
    IF level <= 2 THEN Logical(op, l, r) ELSE Binary(op, l, r)

RECURSIVE binary_rule(_, _, _)
RECURSIVE binary_rule_loop(_, _, _, _)
RECURSIVE unary(_, _)
RECURSIVE primary(_, _)
RECURSIVE assignment(_, _)
RECURSIVE declaration(_, _)
RECURSIVE statement(_, _)
RECURSIVE block_loop(_, _, _)

\* Parser::expression
expression(ts, p) == assignment(ts, p)

\* $inner of a rule: the next rule, unary below factor
rule_inner(level, ts, p) ==
    IF level = RuleCount THEN unary(ts, p) ELSE binary_rule(level + 1, ts, p)

\* __binary_rule!: `let mut expr = self.$inner()?;` and the loop
binary_rule(level, ts, p) ==
    Try(rule_inner(level, ts, p), LAMBDA first :
        binary_rule_loop(level, ts, first.pos, first.node))

\* a loop that parses its right operand with the rule itself, not with
\* $inner: the chain nests to the right
binary_rule_loopRight(level, ts, p, expr) ==
    IF ~peek_type(ts, p).ok THEN POk(p, expr)
    ELSE IF peek_type(ts, p).ty \notin RuleTokens(level) THEN POk(p, expr)
    ELSE Try(binary_rule(level, ts, advance(ts, p).pos), LAMBDA rhs :
            POk(rhs.pos,
                RuleCons(level, into_operator(advance(ts, p).tok.ty), expr, rhs.node)))

\* __binary_rule!: `while let Ok(ty) = self.peek_type() { .. }`
binary_rule_loop(level, ts, p, expr) ==
    IF ~peek_type(ts, p).ok THEN POk(p, expr)
    ELSE IF peek_type(ts, p).ty \notin RuleTokens(level) THEN POk(p, expr)
    ELSE Try(rule_inner(level, ts, advance(ts, p).pos), LAMBDA rhs :
            binary_rule_loop(level, ts, rhs.pos,
                RuleCons(level, into_operator(advance(ts, p).tok.ty), expr, rhs.node)))

\* Parser::logical_or, the outermost rule
logical_or(ts, p) == binary_rule(1, ts, p)

\* an assignment that takes a parenthesised variable for a variable
assignmentThroughGrouping(ts, p) ==
    Try(logical_or(ts, p), LAMBDA expr :
    TryPeek(ts, expr.pos, LAMBDA ty :
        IF ty = "Equal"
        THEN Try(assignment(ts, advance(ts, expr.pos).pos), LAMBDA value :
                IF expr.node.k = "Var"
                THEN POk(value.pos, Assign(expr.node.name, value.node))
                ELSE IF expr.node.k = "Grouping" /\ expr.node.inner.k = "Var"
                THEN POk(value.pos, Assign(expr.node.inner.name, value.node))
                ELSE PErr(value.pos, SyntaxError("InvalidAssignment")))
        ELSE expr))

\* Parser::assignment
assignment(ts, p) ==
    Try(logical_or(ts, p), LAMBDA expr :
    TryPeek(ts, expr.pos, LAMBDA ty :
        IF ty = "Equal"
        THEN Try(assignment(ts, advance(ts, expr.pos).pos), LAMBDA value :
                IF expr.node.k = "Var"
                THEN POk(value.pos, Assign(expr.node.name, value.node))
                ELSE PErr(value.pos, SyntaxError("InvalidAssignment")))
        ELSE expr))

\* Parser::unary
unary(ts, p) ==
    TryPeek(ts, p, LAMBDA ty :
        IF ty \in {"Bang", "Minus"}
        THEN Try(unary(ts, advance(ts, p).pos), LAMBDA inner :
                POk(inner.pos, Unary(into_operator(ty), inner.node)))
        ELSE primary(ts, p))

\* Parser::primary, the match once a token tok of type ty has been peeked
primary_match(ts, p, ty, tok) ==
    CASE ty = "Nil" -> POk(tok.pos, Literal(Nil))
      [] ty = "True" -> POk(tok.pos, Literal(True))
      [] ty = "False" -> POk(tok.pos, Literal(False))
      [] ty = "String" -> POk(tok.pos, Literal(String(tok.tok.value)))
      [] ty = "Number" -> POk(tok.pos, Literal(Number(tok.tok.n)))
      [] ty = "LeftParen" ->
            Try(expression(ts, tok.pos), LAMBDA expr :
            Try(expect(ts, expr.pos, "RightParen", "expression"), LAMBDA close :
                POk(close.pos, Grouping(expr.node))))
      [] ty = "Identifier" -> POk(tok.pos, Var(tok.tok.value))
      [] OTHER -> PErr(p, SyntaxError("PrimaryFailure"))

\* Parser::primary
primary(ts, p) ==
    TryPeek(ts, p, LAMBDA ty : primary_match(ts, p, ty, advance(ts, p)))

\* Parser::expression_statement
expression_statement(ts, p) ==
    Try(expression(ts, p), LAMBDA expr :
    Try(expect(ts, expr.pos, "Semicolon", "value"), LAMBDA semi :
        POk(semi.pos, SExpr(expr.node))))

\* Parser::print_statement
print_statement(ts, p) ==
    Try(expression(ts, p), LAMBDA value :
    Try(expect(ts, value.pos, "Semicolon", "value"), LAMBDA semi :
        POk(semi.pos, SPrint(value.node))))

\* Parser::var_decl, the optional initializer
var_initializer(ts, p) ==
    TryPeek(ts, p, LAMBDA ty :
        IF ty = "Equal"
        THEN expression(ts, advance(ts, p).pos)
        ELSE POk(p, Literal(Nil)))

\* Parser::var_decl
var_decl(ts, p) ==
    Try(expect(ts, p, "Identifier", "keyword 'var'"), LAMBDA ident :
    Try(var_initializer(ts, ident.pos), LAMBDA initializer :
    Try(expect(ts, initializer.pos, "Semicolon", "variable declaration"), LAMBDA semi :
        POk(semi.pos, SVar(ts[p + 1].value, initializer.node)))))

\* Parser::if_statement, from the peek at `else` on
if_else(ts, cond, then_clause) ==
    TryPeek(ts, then_clause.pos, LAMBDA ty :
        IF ty = "Else"
        THEN Try(declaration(ts, advance(ts, then_clause.pos).pos), LAMBDA else_clause :
                POk(else_clause.pos,
                    If(cond.node, then_clause.node, <<else_clause.node>>)))
        ELSE POk(then_clause.pos, If(cond.node, then_clause.node, <<>>)))

\* Parser::if_statement
if_statement(ts, p) ==
    Try(expect(ts, p, "LeftParen", "if"), LAMBDA open :
    Try(expression(ts, open.pos), LAMBDA cond :
    Try(expect(ts, cond.pos, "RightParen", "if condition"), LAMBDA close :
    Try(declaration(ts, close.pos), LAMBDA then_clause :
        if_else(ts, cond, then_clause)))))

\* Parser::while_statement
while_statement(ts, p) ==
    Try(expect(ts, p, "LeftParen", "while"), LAMBDA open :
    Try(expression(ts, open.pos), LAMBDA cond :
    Try(expect(ts, cond.pos, "RightParen", "while condition"), LAMBDA close :
    Try(statement(ts, close.pos), LAMBDA body :
        POk(body.pos, While(cond.node, body.node))))))

\* an Option: Some(node) of a result
Some(r) == POk(r.pos, <<r.node>>)

\* Parser::for_statement, the initializer clause; node is an Option
for_init(ts, p) ==
    TryPeek(ts, p, LAMBDA ty :
        CASE ty = "Semicolon" -> POk(advance(ts, p).pos, <<>>)
          [] ty = "Var" -> Try(var_decl(ts, advance(ts, p).pos), Some)
          [] OTHER -> Try(expression_statement(ts, p), Some))

\* Parser::for_statement, the condition clause
for_condition(ts, p) ==
    TryPeek(ts, p, LAMBDA ty :
        IF ty = "Semicolon" THEN POk(p, Literal(True)) ELSE expression(ts, p))

\* Parser::for_statement, the increment clause; node is an Option
for_increment(ts, p) ==
    TryPeek(ts, p, LAMBDA ty :
        IF ty = "RightParen" THEN POk(p, <<>>) ELSE Try(expression(ts, p), Some))

\* a desugaring that runs the increment before the body
for_desugarIncrementFirst(init, condition, increment, body) ==
    LET inner == IF increment # <<>>
                 THEN Block(<<SExpr(increment[1]), body>>)
                 ELSE body
        while_loop == While(condition, inner) IN
    IF init # <<>> THEN Block(<<init[1], while_loop>>) ELSE while_loop

\* Parser::for_statement, the desugaring into a while loop
for_desugar(init, condition, increment, body) ==
    LET inner == IF increment # <<>>
                 THEN Block(<<body, SExpr(increment[1])>>)
                 ELSE body
        while_loop == While(condition, inner) IN
    IF init # <<>> THEN Block(<<init[1], while_loop>>) ELSE while_loop

\* Parser::for_statement
for_statement(ts, p) ==
    Try(expect(ts, p, "LeftParen", "for"), LAMBDA open :
    Try(for_init(ts, open.pos), LAMBDA init :
    Try(for_condition(ts, init.pos), LAMBDA condition :
    Try(expect(ts, condition.pos, "Semicolon", "for condition"), LAMBDA semi :
    Try(for_increment(ts, semi.pos), LAMBDA increment :
    Try(expect(ts, increment.pos, "RightParen", "for clause"), LAMBDA close :
    Try(statement(ts, close.pos), LAMBDA body :
        POk(body.pos,
            for_desugar(init.node, condition.node, increment.node, body.node)))))))))

\* Parser::block, the loop with the statements collected so far
block_loop(ts, p, block) ==
    TryPeek(ts, p, LAMBDA ty :
        IF ty = "RightBrace"
        THEN POk(advance(ts, p).pos, Block(block))
        ELSE Try(declaration(ts, p), LAMBDA stmt :
                block_loop(ts, stmt.pos, Append(block, stmt.node))))

\* Parser::block
block(ts, p) == block_loop(ts, p, <<>>)

\* Parser::statement
statement(ts, p) ==
    TryPeek(ts, p, LAMBDA ty :
        CASE ty = "While" -> while_statement(ts, advance(ts, p).pos)
          [] ty = "Print" -> print_statement(ts, advance(ts, p).pos)
          [] ty = "If" -> if_statement(ts, advance(ts, p).pos)
          [] ty = "For" -> for_statement(ts, advance(ts, p).pos)
          [] ty = "LeftBrace" -> block(ts, advance(ts, p).pos)
          [] OTHER -> expression_statement(ts, p))

\* Parser::declaration
declaration(ts, p) ==
    TryPeek(ts, p, LAMBDA ty :
        IF ty = "Var" THEN var_decl(ts, advance(ts, p).pos) ELSE statement(ts, p))

\* the lookahead types at which Parser::synchronize returns without consuming
SyncStops == {"Class", "Fun", "Var", "For", "If", "While", "Return", "Print", "EOF"}

RECURSIVE synchronize(_, _)
\* Parser::synchronize: the position it leaves the scanner at
synchronize(ts, p) ==
    IF ~peek_type(ts, p).ok THEN p
    ELSE CASE peek_type(ts, p).ty = "Semicolon" -> advance(ts, p).pos
           [] peek_type(ts, p).ty \in SyncStops -> p
           [] OTHER -> synchronize(ts, advance(ts, p).pos)

\* Parser::parse_statement: the result of declaration, and the position the
\* scanner is left at (after synchronize when declaration failed)
parse_statement(ts, p) ==
    [d |-> declaration(ts, p),
     pos |-> IF declaration(ts, p).ok
             THEN declaration(ts, p).pos
             ELSE synchronize(ts, declaration(ts, p).pos)]

(***************************************************************************)
(* Scope resolution (parser::resolve): every variable reference and        *)
(* declaration gets Global or Local(depth), depth the number of enclosing  *)
(* blocks between the reference and the declaration.  scopes holds the     *)
(* names declared in each enclosing block, innermost last.                 *)
(***************************************************************************)
ScopeOf(name, scopes) ==
    IF \E i \in 1..Len(scopes) : name \in scopes[i]
    THEN Local(Len(scopes) -
               CHOOSE i \in 1..Len(scopes) :
                   /\ name \in scopes[i]
                   /\ \A j \in (i + 1)..Len(scopes) : name \notin scopes[j])
    ELSE Global

RECURSIVE ResolveExpr(_, _)
ResolveExpr(e, scopes) ==
    CASE e.k = "Var" -> [e EXCEPT !.scope = ScopeOf(e.name, scopes)]
      [] e.k = "Assign" ->
            [e EXCEPT !.scope = ScopeOf(e.name, scopes),
                      !.expr = ResolveExpr(e.expr, scopes)]
      [] e.k \in {"Binary", "Logical"} ->
            [e EXCEPT !.lhs = ResolveExpr(e.lhs, scopes),
                      !.rhs = ResolveExpr(e.rhs, scopes)]
      [] e.k = "Unary" -> [e EXCEPT !.unary = ResolveExpr(e.unary, scopes)]
      [] e.k = "Grouping" -> [e EXCEPT !.inner = ResolveExpr(e.inner, scopes)]
      [] e.k = "Call" ->
            [e EXCEPT !.callee = ResolveExpr(e.callee, scopes),
                      !.arguments = [i \in 1..Len(e.arguments) |->
                                        ResolveExpr(e.arguments[i], scopes)]]
      [] OTHER -> e

RECURSIVE ResolveStmt(_, _)
RECURSIVE ResolveStmts(_, _, _)
\* [node, scopes]: the resolved statement and the scopes after it
ResolveStmt(s, scopes) ==
    CASE s.k \in {"SExpr", "SPrint", "Return"} ->
            [node |-> [s EXCEPT !.expr = ResolveExpr(s.expr, scopes)],
             scopes |-> scopes]
      [] s.k = "SVar" ->
            IF scopes = <<>>
            THEN [node |-> [s EXCEPT !.scope = Global,
                                     !.expr = ResolveExpr(s.expr, scopes)],
                  scopes |-> scopes]
            ELSE [node |-> [s EXCEPT !.scope = Local(0),
                                     !.expr = ResolveExpr(s.expr, scopes)],
                  scopes |-> [scopes EXCEPT ![Len(scopes)] = @ \cup {s.name}]]
      [] s.k = "Block" ->
            [node |-> [s EXCEPT !.stmts =
                          ResolveStmts(s.stmts, Append(scopes, {}), <<>>)],
             scopes |-> scopes]
      [] s.k = "If" ->
            [node |-> [s EXCEPT
                          !.cond = ResolveExpr(s.cond, scopes),
                          !.then_clause = ResolveStmt(s.then_clause, scopes).node,
                          !.else_clause =
                              [i \in 1..Len(s.else_clause) |->
                                  ResolveStmt(s.else_clause[i], scopes).node]],
             scopes |-> scopes]
      [] s.k = "While" ->
            [node |-> [s EXCEPT !.cond = ResolveExpr(s.cond, scopes),
                                !.body = ResolveStmt(s.body, scopes).node],
             scopes |-> scopes]
      [] OTHER -> [node |-> s, scopes |-> scopes]

\* the statements resolved in order, each seeing the declarations before it
ResolveStmts(stmts, scopes, done) ==
    IF stmts = <<>> THEN done
    ELSE ResolveStmts(Tail(stmts), ResolveStmt(Head(stmts), scopes).scopes,
                      Append(done, ResolveStmt(Head(stmts), scopes).node))

\* parser::resolve on a program
resolve(stmts) == ResolveStmts(stmts, <<>>, <<>>)

(***************************************************************************)
(* Chunk and Op (chunk.rs): the byte code.  An opcode is one byte; the     *)
(* operand of Constant and of Call follows it, written by Chunk::write.    *)
(***************************************************************************)
\* enum Op, in the order of its bytes
OpNames ==
    <<"Return", "Constant", "Print", "Add", "Subtract", "Multiply", "Divide",
      "Not", "Negate", "Equal", "GreaterThan", "LessThan", "Nil", "True",
      "False", "Pop", "GetGlobal", "SetGlobal", "DefineGlobal", "GetLocal",
      "SetLocal", "Immediate", "Jump", "JumpIfFalse", "Call">>

\* the byte of each opcode: Op.Return is 0, Op.Call is 24
Op ==
    [name \in {OpNames[i] : i \in 1..Len(OpNames)} |->
        (CHOOSE i \in 1..Len(OpNames) : OpNames[i] = name) - 1]

\* bytes of inline operand that follow each opcode
OperandBytes(op) ==
    CASE op \in {Op.Constant, Op.GetGlobal, Op.SetGlobal, Op.DefineGlobal,
                 Op.GetLocal, Op.SetLocal, Op.Call} -> 1
      [] op \in {Op.Jump, Op.JumpIfFalse} -> 2
      [] op = Op.Immediate -> 8
      [] OTHER -> 0

\* the eight bytes of a raw word, the high byte of each 16 bits first
RawBytesHighFirst(raw) ==
    [i \in 1..8 |->
        IF i % 2 = 0 THEN raw[i \div 2] % 256
        ELSE (raw[(i + 1) \div 2] \div 256) % 256]

\* the eight bytes `(val >> 8k) & 0xff`, k = 0..7, of a raw word
RawBytes(raw) ==
    [i \in 1..8 |->
        IF i % 2 = 1 THEN raw[(i + 1) \div 2] % 256
        ELSE (raw[i \div 2] \div 256) % 256]

\* the sum `b1 + (b2 << 8) + .. + (b8 << 56)` of CallFrame::read_u64, as limbs
RawOfBytes(b) == [i \in 1..4 |-> b[2 * i - 1] + b[2 * i] * 256]

\* The code of a chunk is `base` bytes of filler followed by code.  The
\* filler is what Compiler::compile emits for base / FillerLen statements
\* `print 1;`, which the model keeps by length only.
FillerLen == 10
FillerByte(i) ==
    CASE i % FillerLen = 0 -> Op.Immediate
      [] i % FillerLen = FillerLen - 1 -> Op.Print
      [] OTHER -> RawBytes(FloatRaw(1))[i % FillerLen]

\* Chunk::len
ChunkLen(c) == c.base + Len(c.code)

\* Chunk::get
ChunkGet(c, i) == IF i < c.base THEN FillerByte(i) ELSE c.code[i - c.base + 1]

\* Chunk::write_byte, and Chunk::write of an opcode
write_byte(c, b) == [c EXCEPT !.code = Append(@, b)]

\* Chunk::write_byte_at
write_byte_at(c, idx, b) == [c EXCEPT !.code[idx - c.base + 1] = b]

\* Chunk::string_constant: the pool index of the interned string
HasConstant(c, str) == \E i \in 1..Len(c.constants) : c.constants[i] = String(str)
ConstantIdx(c, str) ==
    IF HasConstant(c, str)
    THEN (CHOOSE i \in 1..Len(c.constants) : c.constants[i] = String(str)) - 1
    ELSE Len(c.constants)
string_constant(c, str) ==
    IF HasConstant(c, str) THEN c
    ELSE [c EXCEPT !.constants = Append(@, String(str))]

(***************************************************************************)
(* The build and the messages of the panics of the runtime.  An arithmetic *)
(* overflow panics in a build with overflow checks and wraps in a build    *)
(* without; a usize that wrapped below zero is written as the negative     *)
(* number n that stands for 2^64 + n.                                      *)
(***************************************************************************)
\* whether the running build has overflow checks
OverflowChecks == proc.checks

AddOverflow == "attempt to add with overflow"
SubOverflow == "attempt to subtract with overflow"
\* Option::unwrap on None; the message has a backquote on either side of
\* Option::unwrap() and of None, which a string here cannot hold
UnwrapNone == "called Option::unwrap() on a None value"
\* the decimal digits of a usize, for one that wrapped by less than 500
UsizeString(n) ==
    IF n >= 0 THEN ToString(n) ELSE "18446744073709551" \o ToString(616 + n)
\* an index past the end of a vector or a slice
IndexMessage(len, idx) ==
    "index out of bounds: the len is " \o UsizeString(len)
        \o " but the index is " \o UsizeString(idx)
\* a slice that starts past the end of the vector
SliceMessage(len, start) ==
    "range start index " \o UsizeString(start)
        \o " out of range for slice of length " \o UsizeString(len)
\* Value::as_float on a value that is no double
NotAFloat == "value is not a float"

(***************************************************************************)
(* Compiler (src/vm/src/compile.rs).  A compiler is                        *)
(* [chunk, locals, scope_depth, st, msg]; st becomes "panic" at a panic!() *)
(* or unimplemented!() of the compiler or at an overflow of a build that   *)
(* checks them, and msg is then the message of the panic.  A panic unwinds *)
(* through every caller: nothing of the compiler runs after it, so each of *)
(* its operations leaves a compiler that has panicked as it is, with the   *)
(* message of the first panic.                                             *)
(***************************************************************************)
NewChunk(base) == [code |-> <<>>, base |-> base, constants |-> <<>>]

\* Compiler::new
NewCompiler(base) ==
    [chunk |-> NewChunk(base), locals |-> <<>>, scope_depth |-> 0, st |-> "ok",
     msg |-> ""]

\* a panic of the compiler
CompilerPanic(c, msg) ==
    IF c.st = "panic" THEN c ELSE [c EXCEPT !.st = "panic", !.msg = msg]

\* Compiler::emit and Compiler::emit_byte
emit(c, byte) ==
    IF c.st = "panic" THEN c ELSE [c EXCEPT !.chunk = write_byte(@, byte)]

\* Compiler::ip
ip(c) == ChunkLen(c.chunk)

\* Compiler::emit_jze; the index it returns is ip(c) - 2 of the result
emit_jze(c) == emit(emit(emit(c, Op.JumpIfFalse), 255), 255)

\* Compiler::emit_jmp; the index it returns is ip(c) - 2 of the result
emit_jmp(c) == emit(emit(emit(c, Op.Jump), 255), 255)

\* `(x & 0xff) as u8` and `((x >> 8) & 0xff) as u8`
LoByte(x) == x % 256
HiByte(x) == (x \div 256) % 256

\* Compiler::emit_jmp_to
emit_jmp_to(c, target) ==
    emit(emit(emit(c, Op.Jump), LoByte(target)), HiByte(target))

\* Compiler::patch_jmp
patch_jmp(c, idx) ==
    IF c.st = "panic" THEN c
    ELSE [c EXCEPT !.chunk =
            write_byte_at(write_byte_at(@, idx, LoByte(ip(c))), idx + 1,
                          HiByte(ip(c)))]

\* an opcode followed by the pool index of an interned name, as the *Global
\* arms and the String arm of emit_constant write them
emit_with_constant(c, op, str) ==
    IF c.st = "panic" THEN c
    ELSE emit(emit([c EXCEPT !.chunk = string_constant(@, str)], op),
              ConstantIdx(c.chunk, str))

\* Compiler::emit_constant, the arm Literal::Number once `val` is the raw
\* word of the number: Op::Immediate and the eight write_byte calls
emit_raw(c, raw) ==
    IF c.st = "panic" THEN c
    ELSE [c EXCEPT !.chunk.code = @ \o <<Op.Immediate>> \o RawBytes(raw)]

\* Compiler::emit_constant
emit_constant(c, lit) ==
    CASE lit.t = "Nil" -> emit(c, Op.Nil)
      [] lit.t = "True" -> emit(c, Op.True)
      [] lit.t = "False" -> emit(c, Op.False)
      [] IsNumber(lit) -> emit_raw(c, into_raw(lit))
      [] lit.t = "String" -> emit_with_constant(c, Op.Constant, lit.s)

\* Compiler::resolve_local: whether (var, scope_depth - depth) is in locals
HasLocal(c, var, depth) ==
    \E i \in 1..Len(c.locals) : c.locals[i] = <<var, c.scope_depth - depth>>

\* Compiler::resolve_local: the index returned, `as u8`
LocalIdx(c, var, depth) ==
    IF HasLocal(c, var, depth)
    THEN ((CHOOSE i \in 1..Len(c.locals) :
              /\ c.locals[i] = <<var, c.scope_depth - depth>>
              /\ \A j \in 1..(i - 1) : c.locals[j] # <<var, c.scope_depth - depth>>)
          - 1) % 256
    ELSE Len(c.locals) % 256

\* Compiler::resolve_local: the compiler it leaves.  `self.scope_depth -
\* depth` is a subtraction of usize: with depth above scope_depth it panics
\* in a build with overflow checks and wraps in a build without, and the
\* search and the push go on with the wrapped depth.
resolve_local(c, var, depth) ==
    IF c.st = "panic" THEN c
    ELSE IF depth > c.scope_depth /\ OverflowChecks THEN CompilerPanic(c, SubOverflow)
    ELSE IF HasLocal(c, var, depth) THEN c
    ELSE IF Len(c.locals) = 255 THEN CompilerPanic(c, "TOO MANY LOCAL VARIABLES")
    ELSE [c EXCEPT !.locals = Append(@, <<var, c.scope_depth - depth>>)]

\* the `match var.scope()` of the Var and Assign arms: op_global with the
\* name's constant, or op_local with the slot
emit_variable(c, name, scope, op_global, op_local) ==
    IF scope.kind = "Local"
    THEN emit(emit(resolve_local(c, name, scope.d), op_local),
              LocalIdx(c, name, scope.d))
    ELSE emit_with_constant(c, op_global, name)

\* Compiler::compile_expr, the Binary arm: whether lhs is compiled first
LhsFirst(operator) == operator \notin {"GreaterThanEq", "LessThanEq"}

\* Compiler::compile_expr, the Binary arm: the opcodes after the operands
BinaryOpcodes(operator) ==
    CASE operator = "Plus" -> <<Op.Add>>
      [] operator = "Minus" -> <<Op.Subtract>>
      [] operator = "Star" -> <<Op.Multiply>>
      [] operator = "Slash" -> <<Op.Divide>>
      [] operator = "Equal" -> <<Op.Equal>>
      [] operator = "GreaterThan" -> <<Op.GreaterThan>>
      [] operator = "LessThan" -> <<Op.LessThan>>
      [] operator = "GreaterThanEq" -> <<Op.LessThan>>
      [] operator = "LessThanEq" -> <<Op.GreaterThan>>
      [] operator = "BangEq" -> <<Op.Equal, Op.Not>>

emit_all(c, bytes) ==
    IF c.st = "panic" THEN c ELSE [c EXCEPT !.chunk.code = @ \o bytes]

RECURSIVE CompileExpr(_, _)
RECURSIVE CompileArgs(_, _)

\* Compiler::and as it would be without `self.emit(Op::Pop)`: the left value
\* stays under the right one
CompileAndKeepsLeft(c, lhs, rhs) ==
    LET jze == emit_jze(CompileExpr(c, lhs)) IN
    patch_jmp(CompileExpr(jze, rhs), ip(jze) - 2)

\* Compiler::and
CompileAnd(c, lhs, rhs) ==
    LET jze == emit_jze(CompileExpr(c, lhs)) IN
    patch_jmp(CompileExpr(emit(jze, Op.Pop), rhs), ip(jze) - 2)

\* Compiler::or
CompileOr(c, lhs, rhs) ==
    LET else_jmp == emit_jze(CompileExpr(c, lhs))
        end_jmp == emit_jmp(else_jmp) IN
    patch_jmp(CompileExpr(emit(patch_jmp(end_jmp, ip(else_jmp) - 2), Op.Pop), rhs),
              ip(end_jmp) - 2)

\* Compiler::compile_expr
CompileExpr(c, e) ==
    IF c.st = "panic" THEN c ELSE
    CASE e.k = "Binary" ->
            emit_all(IF LhsFirst(e.operator)
                     THEN CompileExpr(CompileExpr(c, e.lhs), e.rhs)
                     ELSE CompileExpr(CompileExpr(c, e.rhs), e.lhs),
                     BinaryOpcodes(e.operator))
      [] e.k = "Grouping" -> CompileExpr(c, e.inner)
      [] e.k = "Literal" -> emit_constant(c, e.value)
      [] e.k = "Unary" ->
            emit(CompileExpr(c, e.unary),
                 IF e.operator = "Minus" THEN Op.Negate ELSE Op.Not)
      [] e.k = "Logical" ->
            IF e.operator = "And"
            THEN CompileAnd(c, e.lhs, e.rhs)
            ELSE CompileOr(c, e.lhs, e.rhs)
      [] e.k = "Var" -> emit_variable(c, e.name, e.scope, Op.GetGlobal, Op.GetLocal)
      [] e.k = "Assign" ->
            emit_variable(CompileExpr(c, e.expr), e.name, e.scope,
                          Op.SetGlobal, Op.SetLocal)
      [] e.k = "Call" ->
            LET args == CompileArgs(CompileExpr(c, e.callee), e.arguments) IN
            IF Len(e.arguments) > 8 THEN CompilerPanic(args, "Too many arguments.")
            ELSE emit(emit(args, Op.Call), Len(e.arguments))
      [] OTHER -> CompilerPanic(c, "not implemented: " \o e.k)

\* the `for arg in call.arguments.iter()` loop of the Call arm
CompileArgs(c, args) ==
    IF args = <<>> THEN c ELSE CompileArgs(CompileExpr(c, Head(args)), Tail(args))

RECURSIVE CompileStmt(_, _)
RECURSIVE CompileStmts(_, _)

\* Compiler::compile_stmt, the If arm
CompileIf(c, s) ==
    LET else_jmp == emit_jze(CompileExpr(c, s.cond))
        end_jmp == emit_jmp(CompileStmt(emit(else_jmp, Op.Pop), s.then_clause))
        else_start == emit(patch_jmp(end_jmp, ip(else_jmp) - 2), Op.Pop) IN
    patch_jmp(IF s.else_clause # <<>>
              THEN CompileStmt(else_start, s.else_clause[1])
              ELSE else_start,
              ip(end_jmp) - 2)

\* Compiler::compile_stmt, the While arm
CompileWhile(c, s) ==
    LET end_jmp == emit_jze(CompileExpr(c, s.cond)) IN
    patch_jmp(emit_jmp_to(CompileStmt(emit(end_jmp, Op.Pop), s.body), ip(c)),
              ip(end_jmp) - 2)

\* `self.scope_depth -= 1` at the end of the Block arm
end_scope(c) ==
    IF c.st = "panic" THEN c ELSE [c EXCEPT !.scope_depth = @ - 1]

\* Compiler::compile_stmt
CompileStmt(c, s) ==
    IF c.st = "panic" THEN c ELSE
    CASE s.k = "SPrint" -> emit(CompileExpr(c, s.expr), Op.Print)
      [] s.k = "SExpr" -> emit(CompileExpr(c, s.expr), Op.Pop)
      [] s.k = "Block" ->
            end_scope(CompileStmts([c EXCEPT !.scope_depth = @ + 1], s.stmts))
      [] s.k = "If" -> CompileIf(c, s)
      [] s.k = "While" -> CompileWhile(c, s)
      [] s.k = "Return" -> emit(CompileExpr(c, s.expr), Op.Return)
      [] s.k = "SVar" ->
            emit_variable(CompileExpr(c, s.expr), s.name, s.scope,
                          Op.SetGlobal, Op.SetLocal)
      [] s.k = "Function" -> c
      [] OTHER -> CompilerPanic(c, "not implemented: " \o s.k)

\* the `for s in stmts` loop of the Block arm
CompileStmts(c, stmts) ==
    IF stmts = <<>> THEN c ELSE CompileStmts(CompileStmt(c, Head(stmts)), Tail(stmts))

\* parser::resolve on the statements, then Compiler::compile
compile(stmts, base) == CompileStmts(NewCompiler(base), resolve(stmts))

(***************************************************************************)
(* VM (src/vm/src/vm.rs).  A machine is [frames, stack, globals, out, log, *)
(* status]; a frame is [fn, ip, stack_start]; stack indices are 0-based as *)
(* in the source, so slot i is stack[i + 1].  status "panic" is a panic!(),*)
(* an unwrap() of None, an expect(), an index out of range or, in a build  *)
(* with overflow checks, an overflow; msg is then the message of the       *)
(* panic.  A panicked machine keeps the stack it had at the start of the   *)
(* handler.                                                                *)
(***************************************************************************)
\* Object::function(name, 0, chunk): the handle of an Object::LoxFunction
\* { name, chunk, arity }.  n is the arity; the chunk is kept apart, as
\* `chunk` for "main" and as FunctionChunk(name) for the others.
Function(name) == [t |-> "Function", n |-> 0, s |-> name]

\* Object::is_function, reached through the Deref of ObjectHandle
is_function(v) == v.t = "Function"

Machine(fr, st, gl, out, log) ==
    [frames |-> fr, stack |-> st, globals |-> gl, out |-> out, log |-> log,
     status |-> "running", msg |-> ""]

PanicWith(m, msg) == [m EXCEPT !.status = "panic", !.msg = msg]

\* VM::frame
frame(m) == m.frames[Len(m.frames)]

\* the assignments to frame_mut().ip
set_ip(m, i) == [m EXCEPT !.frames[Len(m.frames)].ip = i]

\* CallFrame::new
NewFrame(fn, stack_start) == [fn |-> fn, ip |-> 0, stack_start |-> stack_start]

\* VM::push
push(m, v) == [m EXCEPT !.stack = Append(@, v)]

\* VM::peek and the value VM::pop returns, on a stack that is not empty
peek(m) == m.stack[Len(m.stack)]

\* the stack VM::pop leaves, n times
pop(m, n) == [m EXCEPT !.stack = SubSeq(@, 1, Len(@) - n)]

\* CallFrame::read_byte: the byte read; the ip moves by 1
read_byte(m, ch) == ChunkGet(ch, frame(m).ip)

\* CallFrame::read_u16: lo + (hi << 8) of the two bytes at ip; the ip moves by 2
read_u16(m, ch) ==
    ChunkGet(ch, frame(m).ip) + ChunkGet(ch, frame(m).ip + 1) * 256

\* CallFrame::read_u64: the eight bytes at ip as a raw word; the ip moves by 8
read_u64(m, ch) == RawOfBytes([i \in 1..8 |-> ChunkGet(ch, frame(m).ip + i - 1)])

\* whether n bytes can be read at ip (Chunk::get indexes the code vector)
CanRead(m, ch, n) == frame(m).ip + n <= ChunkLen(ch)

\* a handler that first reads an operand of n bytes; Chunk::get past the end
\* of the code is an index out of range
WithOperand(m, ch, n, H(_)) ==
    IF CanRead(m, ch, n) THEN H(set_ip(m, frame(m).ip + n))
    ELSE PanicWith(m, IndexMessage(ChunkLen(ch), ChunkLen(ch)))

\* VM::constant
constant(m, ch) ==
    WithOperand(m, ch, 1, LAMBDA m1 :
        IF read_byte(m, ch) < Len(ch.constants)
        THEN push(m1, ch.constants[read_byte(m, ch) + 1])
        ELSE PanicWith(m, UnwrapNone))

\* VM::print
print(m) ==
    IF m.stack = <<>> THEN PanicWith(m, UnwrapNone)
    ELSE [pop(m, 1) EXCEPT !.out = Append(@, peek(m))]

\* `let b = self.pop(); let a = self.pop();` followed by as_float on both and a
\* push of F(a, b); Value::as_float of a value that is no number aborts
NumericBinary(m, F(_, _)) ==
    IF Len(m.stack) < 2 THEN PanicWith(m, UnwrapNone)
    ELSE IF IsNumber(peek(m)) /\ IsNumber(peek(pop(m, 1)))
         THEN push(pop(m, 2), F(peek(pop(m, 1)), peek(m)))
         ELSE PanicWith(m, NotAFloat)

\* `let b = self.pop().as_float(); let a = self.pop().as_float();` and a push
\* of F(a, b): b is converted before a is popped
NumericCompare(m, F(_, _)) ==
    IF m.stack = <<>> THEN PanicWith(m, UnwrapNone)
    ELSE IF ~IsNumber(peek(m)) THEN PanicWith(m, NotAFloat)
    ELSE IF Len(m.stack) < 2 THEN PanicWith(m, UnwrapNone)
    ELSE IF ~IsNumber(peek(pop(m, 1))) THEN PanicWith(m, NotAFloat)
    ELSE push(pop(m, 2), F(peek(pop(m, 1)), peek(m)))

Bool(b) == IF b THEN True ELSE False

\* VM::add, VM::sub, VM::mul, VM::div
add(m) == NumericBinary(m, LAMBDA a, b : Arith("Plus", a, b))
sub(m) == NumericBinary(m, LAMBDA a, b : Arith("Minus", a, b))
mul(m) == NumericBinary(m, LAMBDA a, b : Arith("Star", a, b))
div(m) == NumericBinary(m, LAMBDA a, b : Arith("Slash", a, b))

\* VM::gt, VM::lt
gt(m) == NumericCompare(m, LAMBDA a, b : Bool(Compare("GreaterThan", a, b)))
lt(m) == NumericCompare(m, LAMBDA a, b : Bool(Compare("LessThan", a, b)))

\* VM::neg
neg(m) ==
    IF m.stack = <<>> THEN PanicWith(m, UnwrapNone)
    ELSE IF ~IsNumber(peek(m)) THEN PanicWith(m, NotAFloat)
    ELSE push(pop(m, 1), Negated(peek(m)))

\* VM::not
not(m) ==
    IF m.stack = <<>> THEN PanicWith(m, UnwrapNone)
    ELSE push(pop(m, 1), Bool(~truthy(peek(m))))

\* VM::eq
eq(m) ==
    IF Len(m.stack) < 2 THEN PanicWith(m, UnwrapNone)
    ELSE push(pop(m, 2), Bool(Equals(peek(pop(m, 1)), peek(m))))

\* VM::jmp
jmp(m, ch) == WithOperand(m, ch, 2, LAMBDA m1 : set_ip(m1, read_u16(m, ch)))

\* VM::jze
jze(m, ch) ==
    WithOperand(m, ch, 2, LAMBDA m1 :
        IF m.stack = <<>> THEN PanicWith(m, "stack to be nonempty")
        ELSE IF ~truthy(peek(m)) THEN set_ip(m1, read_u16(m, ch)) ELSE m1)

\* CallFrame::read_constant followed by the two `if let` of the *_global
\* handlers: H gets the machine after the read and the name; op is the name
\* of the opcode in the message of the panic at their end
WithName(m, ch, op, H(_, _)) ==
    WithOperand(m, ch, 1, LAMBDA m1 :
        IF read_byte(m, ch) >= Len(ch.constants) THEN PanicWith(m, UnwrapNone)
        ELSE IF ch.constants[read_byte(m, ch) + 1].t = "String"
        THEN H(m1, ch.constants[read_byte(m, ch) + 1].s)
        ELSE PanicWith(m, op \o " constant was not a string"))

\* HashMap::insert on globals
GlobalsInsert(gl, name, v) ==
    [n \in (DOMAIN gl) \cup {name} |-> IF n = name THEN v ELSE gl[n]]

\* VM::get_global
get_global(m, ch) ==
    WithName(m, ch, "GET_GLOBAL", LAMBDA m1, name :
        IF name \in DOMAIN m.globals THEN push(m1, m.globals[name])
        ELSE PanicWith(m, "undefined global"))

\* VM::set_global
set_global(m, ch) ==
    WithName(m, ch, "SET_GLOBAL", LAMBDA m1, name :
        IF m.stack = <<>> THEN PanicWith(m, UnwrapNone)
        ELSE [m1 EXCEPT !.globals = GlobalsInsert(@, name, peek(m)),
                        !.log = Append(@, <<name, peek(m)>>)])

\* VM::define_global
define_global(m, ch) ==
    WithName(m, ch, "DEF_GLOBAL", LAMBDA m1, name :
        IF m.stack = <<>> THEN PanicWith(m, UnwrapNone)
        ELSE [pop(m1, 1) EXCEPT !.globals = GlobalsInsert(@, name, peek(m)),
                                !.log = Append(@, <<name, peek(m)>>)])

\* VM::slots and VM::slots_mut: whether slot idx of the frame exists
HasSlot(m, idx) == frame(m).stack_start + idx < Len(m.stack)

\* the panic of `self.slots()[idx as usize]` when the slot does not exist:
\* of the slice when the frame starts past the end of the stack, of the
\* index otherwise
SlotMessage(m, idx) ==
    IF frame(m).stack_start > Len(m.stack)
    THEN SliceMessage(Len(m.stack), frame(m).stack_start)
    ELSE IndexMessage(Len(m.stack) - frame(m).stack_start, idx)

\* VM::get_local
get_local(m, ch) ==
    WithOperand(m, ch, 1, LAMBDA m1 :
        IF HasSlot(m, read_byte(m, ch))
        THEN push(m1, m.stack[frame(m).stack_start + read_byte(m, ch) + 1])
        ELSE PanicWith(m, SlotMessage(m, read_byte(m, ch))))

\* VM::set_local
set_local(m, ch) ==
    WithOperand(m, ch, 1, LAMBDA m1 :
        IF m.stack = <<>> THEN PanicWith(m, "stack to be nonempty")
        ELSE IF HasSlot(m, read_byte(m, ch))
        THEN [m1 EXCEPT !.stack[frame(m).stack_start + read_byte(m, ch) + 1] = peek(m)]
        ELSE PanicWith(m, SlotMessage(m, read_byte(m, ch))))

\* VM::immediate
immediate(m, ch) ==
    WithOperand(m, ch, 8, LAMBDA m1 : push(m1, from_raw(read_u64(m, ch))))

\* VM::imm_nil, VM::imm_true, VM::imm_false
imm_nil(m) == push(m, Nil)
imm_true(m) == push(m, True)
imm_false(m) == push(m, False)

\* VM::call: `last - (arity + 1) as usize`, where arity + 1 is a sum of u8
\* and wraps to 0 for arity 255, and the subtractions are of usize
CallStackStart(m, arity) == (Len(m.stack) - 1) - ((arity + 1) % 256)

\* VM::call, the overflow a build with overflow checks stops at: of
\* `self.stack.len() - 1`, of `arity + 1`, or of `last - ..`
CallOverflow(m, arity) ==
    CASE m.stack = <<>> -> SubOverflow
      [] arity = 255 -> AddOverflow
      [] CallStackStart(m, arity) < 0 -> SubOverflow
      [] OTHER -> ""

\* VM::call
call(m, arity) ==
    IF OverflowChecks /\ CallOverflow(m, arity) # ""
    THEN PanicWith(m, CallOverflow(m, arity))
    ELSE IF CallStackStart(m, arity) < 0
    THEN PanicWith(m, IndexMessage(Len(m.stack), CallStackStart(m, arity)))
    ELSE IF is_function(m.stack[CallStackStart(m, arity) + 1])
    THEN [m EXCEPT !.frames =
             Append(@, NewFrame(m.stack[CallStackStart(m, arity) + 1].s,
                                CallStackStart(m, arity)))]
    ELSE IF m.stack[CallStackStart(m, arity) + 1].t = "String"
    THEN PanicWith(m, "Callframe must be constructed from a function")
    ELSE PanicWith(m, "Callee was not an object")

\* VM::ret
ret(m) ==
    PanicWith([m EXCEPT !.frames = SubSeq(@, 1, Len(@) - 1),
                        !.stack = SubSeq(@, 1, frame(m).stack_start)],
              "Cannot return from top-level.")

\* the arm `Op::Call(arity) => vm.call(arity)` of decode_op!
call_op(m, ch) == WithOperand(m, ch, 1, LAMBDA m1 : call(m1, read_byte(m, ch)))

\* the arm `Op::Pop` of decode_op!
pop_op(m) == IF m.stack = <<>> THEN PanicWith(m, UnwrapNone) ELSE pop(m, 1)

(***************************************************************************)
(* Values the variables of a component hold while another one runs.        *)
(***************************************************************************)
NoCall == [called |-> FALSE, ok |-> TRUE, start |-> 0, errpos |-> 0, end |-> 0]
NoBlock == [seen |-> FALSE, st |-> "ok", before |-> <<>>, after |-> <<>>]
NoExpr == [seen |-> FALSE, st |-> "ok", v |-> Void, before |-> <<>>]
NoGlobals == [n \in {} |-> Nil]
NoOp == [op |-> 0 - 1, arg |-> 0, before |-> <<>>, nframes |-> 0, start |-> 0,
         gl |-> NoGlobals, heights |-> <<>>, msg |-> ""]

ParserIdle ==
    /\ tokens = <<>> /\ pos = 0 /\ statements = <<>> /\ errors = <<>>
    /\ presult = "idle" /\ lastcall = NoCall
EvalIdle ==
    /\ program = <<>> /\ epc = 1 /\ env = EnvNew /\ eout = <<>> /\ elog = <<>>
    /\ estatus = "idle" /\ lastblock = NoBlock /\ lastexpr = NoExpr
VMIdle ==
    /\ chunk = NewChunk(0) /\ frames = <<>> /\ stack = <<>> /\ globals = NoGlobals
    /\ vout = <<>> /\ vlog = <<>> /\ vstatus = "idle" /\ steps = 0 /\ lastop = NoOp
\* the process has started and has written nothing.  checks is the build:
\* with overflow checks (the debug profile) or without (the release profile).
Started ==
    [file |-> "read", exited |-> FALSE, status |-> 0, stderr |-> <<>>,
     checks |-> TRUE]
Builds == {Started, [Started EXCEPT !.checks = FALSE]}
NoProbe == [called |-> FALSE]
CompilerIdle == compiler = NewCompiler(0) /\ probe = NoProbe
HostIdle == proc \in Builds /\ heap = {} /\ CompilerIdle

(***************************************************************************)
(* SpecParser: Parser::parse.  One action per item the `for res in self`   *)
(* loop takes from Iterator::next, one per match arm, and one for the      *)
(* return.                                                                 *)
(***************************************************************************)
TokAlphabet ==
    {Tok("Semicolon"), TokNumber(1), Tok("Print"), Tok("LeftBrace"),
     Tok("RightBrace"), Tok("Class"), Tok("Error")}
TokenStreams == UNION {[1..n -> TokAlphabet] : n \in 0..MaxTokens}

InitParser ==
    /\ mode = "parse"
    /\ tokens \in TokenStreams
    /\ pos = 0 /\ statements = <<>> /\ errors = <<>>
    /\ presult = "running" /\ lastcall = NoCall
    /\ EvalIdle /\ VMIdle /\ HostIdle

\* Parser::parse, the arm Ok(stmt) of an item of Iterator::next
ParseOk ==
    /\ mode = "parse" /\ presult = "running"
    /\ has_next(tokens, pos)
    /\ LET r == parse_statement(tokens, pos) IN
       /\ r.d.ok
       /\ statements' = Append(statements, r.d.node)
       /\ pos' = r.pos
       /\ lastcall' = [called |-> TRUE, ok |-> TRUE, start |-> pos,
                       errpos |-> r.d.pos, end |-> r.pos]
    /\ UNCHANGED <<hvars, mode, tokens, errors, presult, evars, vmvars>>

\* Parser::parse, the arm Err(err) of an item of Iterator::next.  An item
\* that fails and leaves the scanner where it found it comes again at every
\* later iteration, without end: the model takes it until MaxErrors errors
\* are held.  Every other item is taken, however many errors are held.
ParseErr ==
    /\ mode = "parse" /\ presult = "running"
    /\ has_next(tokens, pos)
    /\ LET r == parse_statement(tokens, pos) IN
       /\ ~r.d.ok
       /\ r.pos > pos \/ Len(errors) < MaxErrors
       /\ errors' = Append(errors, r.d.err)
       /\ pos' = r.pos
       /\ lastcall' = [called |-> TRUE, ok |-> FALSE, start |-> pos,
                       errpos |-> r.d.pos, end |-> r.pos]
    /\ UNCHANGED <<hvars, mode, tokens, statements, presult, evars, vmvars>>

\* Parser::parse, after the loop: Err(errors) or Ok(statements)
ParseReturn ==
    /\ mode = "parse" /\ presult = "running"
    /\ ~has_next(tokens, pos)
    /\ presult' = IF errors # <<>> THEN "Err" ELSE "Ok"
    /\ UNCHANGED <<hvars, mode, tokens, pos, statements, errors, lastcall, evars, vmvars>>

NextParser == ParseOk \/ ParseErr \/ ParseReturn

SpecParser == InitParser /\ [][NextParser]_vars


(***************************************************************************)
(* Claims about the parser, checked under SpecParser.                      *)
(***************************************************************************)
\* C2: Parser::parse terminates on every finite token stream and returns
\* Ok(statements) when no statement failed or Err(the non-empty error list):
\* every failed parse_statement call leaves the scanner further on than it
\* found it, and the value returned agrees with the errors collected.
C2_ParseTerminates ==
    /\ (lastcall.called /\ ~lastcall.ok) => lastcall.end > lastcall.start
    /\ presult = "Ok" => errors = <<>>
    /\ presult = "Err" => errors # <<>>

\* the tokens synchronize consumed are ts[from + 1 .. to]
SyncPositionOk(ts, from, to) ==
    /\ \/ to > from /\ ts[to].ty = "Semicolon"
       \/ peek_type(ts, to).ok /\ peek_type(ts, to).ty \in SyncStops
    /\ \A i \in (from + 1)..to :
          /\ ts[i].ty \notin SyncStops
          /\ ts[i].ty = "Semicolon" => i = to

\* C3: when Parser::synchronize returns it has just consumed a `;` or the
\* lookahead is one of class, fun, var, for, if, while, return, print or EOF,
\* and it consumed nothing past the first such position.
C3_SynchronizeStops ==
    (lastcall.called /\ ~lastcall.ok) =>
        SyncPositionOk(tokens, lastcall.errpos, lastcall.end)

RECURSIVE ValidFrom(_, _)
\* every statement from position p on parses without an error
ValidFrom(ts, p) ==
    IF ~has_next(ts, p) THEN TRUE
    ELSE declaration(ts, p).ok /\ ValidFrom(ts, declaration(ts, p).pos)

\* ts with a `;` put in after its first i tokens
WithSemicolon(ts, i) ==
    SubSeq(ts, 1, i) \o <<Tok("Semicolon")>> \o SubSeq(ts, i + 1, Len(ts))

\* ts is a valid program from which one `;` was left out
OneMissingSemicolon(ts) ==
    /\ ~ValidFrom(ts, 0)
    /\ \E i \in 0..Len(ts) : ValidFrom(WithSemicolon(ts, i), 0)

\* C4: a program whose only syntax error is one missing `;`, at top level or
\* inside a block, yields exactly one error.
C4_NoSpuriousErrors ==
    (presult = "Err" /\ OneMissingSemicolon(tokens)) => Len(errors) = 1


(***************************************************************************)
(* Spec: a program run by the evaluator and then, compiled, by the VM.     *)
(***************************************************************************)
NumLits == {Literal(Number(n)) : n \in 0..MaxNum}
Incr == Assign("x", Binary("Plus", Var("x"), Literal(Number(1))))

\* operands: literals, the variable, and parenthesised assignments
Leaves ==
    NumLits \cup {Literal(Nil), Literal(String("a")), Var("x")}
            \cup {Grouping(Assign("x", l)) : l \in NumLits}

BinaryOperators ==
    {"Plus", "Minus", "Star", "Slash", "GreaterThan", "GreaterThanEq", "LessThan",
     "LessThanEq", "Equal", "BangEq"}

Exprs ==
    Leaves
    \cup {Binary(op, a, b) : op \in BinaryOperators, a \in Leaves, b \in Leaves}
    \cup {Logical(op, a, b) : op \in {"And", "Or"}, a \in Leaves, b \in Leaves}
    \cup {Unary(op, a) : op \in {"Minus", "Bang"}, a \in Leaves}
    \cup {Call(Var("x"), args) : args \in {<<>>, <<Literal(Number(0))>>}}

Conds ==
    {Literal(True), Literal(False), Literal(Nil), Var("x"),
     Binary("LessThan", Var("x"), Literal(Number(MaxNum))),
     Binary("Plus", Var("x"), Literal(Nil))}

Bodies ==
    {SPrint(Literal(Number(1))), SExpr(Incr),
     Block(<<SVar("y", Literal(Number(1))), SPrint(Var("y"))>>)}

BlockStmts ==
    {SVar("x", Literal(Number(1))), SPrint(Var("x")), SPrint(Var("y")),
     SExpr(Incr), SPrint(Binary("Plus", Var("x"), Literal(Nil)))}

JumpStmts ==
    {If(c, t, <<>>) : c \in Conds, t \in Bodies}
    \cup {If(c, t, <<e>>) : c \in Conds, t \in Bodies, e \in Bodies}
    \cup {While(c, b) : c \in Conds, b \in Bodies}

RECURSIVE ShadowBlock(_, _)
\* `{ var x = d; print x; { ...the same for d + 1, down to depth n... } print x; }`
ShadowBlock(d, n) ==
    Block(<<SVar("x", Literal(Number(d))), SPrint(Var("x"))>>
          \o (IF d < n THEN <<ShadowBlock(d + 1, n), SPrint(Var("x"))>> ELSE <<>>))

\* `{ if (c) { var y = 1; var z = 1; } var w = 1; print w; }`
SkipBlock(c) ==
    Block(<<If(c, Block(<<SVar("y", Literal(Number(1))),
                          SVar("z", Literal(Number(1)))>>), <<>>),
            SVar("w", Literal(Number(1))), SPrint(Var("w"))>>)

\* a function declaration at top level, at the end of a block and as the
\* branch of an `if`, and a `return` at top level
FunctionStmts ==
    {SFunction("f"), Block(<<SPrint(Literal(Number(1))), SFunction("f")>>),
     If(Literal(True), SFunction("f"), <<>>), Return(Literal(Number(1)))}

Stmts ==
    {SPrint(e) : e \in Exprs}
    \cup FunctionStmts
    \cup {ShadowBlock(1, n) : n \in 1..MaxDepth}
    \cup {SkipBlock(Literal(c)) : c \in {True, False}}
    \cup {SExpr(e) : e \in Leaves \cup {Incr}}
    \cup JumpStmts
    \cup {Block(<<>>)}
    \cup {Block(<<a>>) : a \in BlockStmts}
    \cup {Block(<<a, b>>) : a \in BlockStmts, b \in BlockStmts}

\* `var x = 0; s print x;`
ProgramOf(s) == <<SVar("x", Literal(Number(0))), s, SPrint(Var("x"))>>
\* `l(); print 0; print 0;` for a literal l: a call is the first statement
CallFirst(l) ==
    <<SExpr(Call(l, <<>>)), SPrint(Literal(Number(0))), SPrint(Literal(Number(0)))>>
Programs == {ProgramOf(s) : s \in Stmts} \cup {CallFirst(l) : l \in NumLits}

\* chunks written byte by byte, as Chunk::write_byte allows, around the
\* opcode Op::DefineGlobal, which the compiler emits for no statement:
\* `Immediate 0; DefineGlobal 0` with a pool of one constant
Assembled ==
    {[NewChunk(0) EXCEPT
         !.code = <<Op.Immediate>> \o RawBytes(FloatRaw(0)) \o <<Op.DefineGlobal, 0>>,
         !.constants = <<k>>] : k \in {String("x"), Number(0)}}

\* a program given to the evaluator, or VM::new on an assembled chunk
Init ==
    /\ ParserIdle /\ HostIdle
    /\ \/ /\ mode = "eval"
          /\ program \in Programs
          /\ epc = 1 /\ env = EnvNew /\ eout = <<>> /\ elog = <<>>
          /\ estatus = "running" /\ lastblock = NoBlock /\ lastexpr = NoExpr
          /\ VMIdle
       \/ /\ mode = "vm"
          /\ chunk \in Assembled
          /\ frames = <<NewFrame("main", 0)>>
          /\ stack = <<>> /\ globals = NoGlobals
          /\ vout = <<>> /\ vlog = <<>> /\ vstatus = "running" /\ steps = 0
          /\ lastop = NoOp
          /\ EvalIdle

\* one iteration of `for stmt in stmts { stmt.eval(ctx)?; }`
EvalStep ==
    /\ mode = "eval" /\ estatus = "running"
    /\ epc <= Len(program)
    /\ \E r \in {EvalStmt(program[epc], Ctx(env, eout, elog), MaxLoop)} :
       /\ env' = r.ctx.env
       /\ eout' = r.ctx.out
       /\ elog' = r.ctx.log
       /\ estatus' = IF r.st = "ok" THEN "running" ELSE r.st
       /\ lastblock' = IF program[epc].k = "Block"
                       THEN [seen |-> TRUE, st |-> r.st, before |-> env,
                             after |-> r.ctx.env]
                       ELSE lastblock
    /\ epc' = epc + 1
    /\ UNCHANGED <<hvars, mode, program, lastexpr, pvars, vmvars>>

\* the evaluator returns: Ok(Value::Void) after the loop, or the Err of `?`
EvalReturn ==
    /\ mode = "eval"
    /\ estatus # "running" \/ epc > Len(program)
    /\ estatus' = IF estatus = "running" THEN "ok" ELSE estatus
    /\ mode' = "compile"
    /\ UNCHANGED <<hvars, program, epc, env, eout, elog, lastblock, lastexpr, pvars, vmvars>>

\* Compiler::compile on the program, then VM::new on its chunk
Compile ==
    /\ mode = "compile"
    /\ LET c == compile(program, chunk.base) IN
       /\ chunk' = c.chunk
       /\ vstatus' = IF c.st = "ok" THEN "running" ELSE "panic"
       /\ lastop' = [lastop EXCEPT !.msg = c.msg]
    /\ frames' = <<NewFrame("main", 0)>>
    /\ stack' = <<>>
    /\ globals' = NoGlobals
    /\ mode' = "vm"
    /\ UNCHANGED <<hvars, vout, vlog, steps, pvars, evars>>

\* the machine the variables hold
Current == Machine(frames, stack, globals, vout, vlog)

\* the chunks of the function objects that the stacks of SpecCall hold,
\* Object::function(name, 0, chunk): the chunk of "f" is one Return, the
\* chunk of "h" is empty
FunctionChunk(name) ==
    [NewChunk(0) EXCEPT !.code = IF name = "h" THEN <<>> ELSE <<Op.Return>>]

\* CallFrame::chunk: the chunk of the function of the current frame
Code ==
    IF frame(Current).fn = "main" THEN chunk ELSE FunctionChunk(frame(Current).fn)

\* VM::run, the loop condition (l is the length of the chunk of main, taken
\* once) and `let inst = self.read_byte()`: the next instruction of the
\* current frame is op
Fetch(op) ==
    /\ mode = "vm" /\ vstatus = "running"
    /\ steps < MaxSteps
    /\ frame(Current).ip < ChunkLen(chunk)
    /\ frame(Current).ip < ChunkLen(Code)
    /\ read_byte(Current, Code) = op

\* the machine once read_byte has taken the opcode
Decoded == set_ip(Current, frame(Current).ip + 1)

\* the offset in the chunk of main of the code of statement k of the program
StmtStart(k) == ChunkLen(compile(SubSeq(program, 1, k - 1), chunk.base).chunk)

\* bookkeeping: the height of the stack at the latest fetch of the first
\* instruction of each top-level statement
Heights ==
    IF frame(Current).fn = "main"
    THEN [k \in {j \in 1..Len(program) : StmtStart(j) = frame(Current).ip}
             |-> Len(stack)] @@ lastop.heights
    ELSE lastop.heights

\* the handler of op has left the machine m
Become(op, m) ==
    /\ frames' = m.frames
    /\ stack' = m.stack
    /\ globals' = m.globals
    /\ vout' = m.out
    /\ vlog' = m.log
    /\ vstatus' = m.status
    /\ steps' = steps + 1
    /\ lastop' = [op |-> op,
                  arg |-> IF frame(Decoded).ip < ChunkLen(Code)
                          THEN read_byte(Decoded, Code) ELSE 0,
                  before |-> stack, nframes |-> Len(frames),
                  start |-> frame(Current).stack_start, gl |-> globals,
                  heights |-> Heights, msg |-> m.msg]
    /\ UNCHANGED <<hvars, mode, chunk, pvars, evars>>

\* the arm Op::Call of decode_op!, one iteration of the loop of VM::run
DoCall == Fetch(Op.Call) /\ Become(Op.Call, call_op(Decoded, Code))

\* the arm Op::Return of decode_op!, one iteration of the loop of VM::run
DoReturn == Fetch(Op.Return) /\ Become(Op.Return, ret(Decoded))

\* decode_op!: one iteration of the loop of VM::run, one disjunct per arm
decode_op ==
    \/ Fetch(Op.Constant) /\ Become(Op.Constant, constant(Decoded, Code))
    \/ Fetch(Op.Print) /\ Become(Op.Print, print(Decoded))
    \/ Fetch(Op.Add) /\ Become(Op.Add, add(Decoded))
    \/ Fetch(Op.Subtract) /\ Become(Op.Subtract, sub(Decoded))
    \/ Fetch(Op.Multiply) /\ Become(Op.Multiply, mul(Decoded))
    \/ Fetch(Op.Divide) /\ Become(Op.Divide, div(Decoded))
    \/ Fetch(Op.Not) /\ Become(Op.Not, not(Decoded))
    \/ Fetch(Op.Negate) /\ Become(Op.Negate, neg(Decoded))
    \/ Fetch(Op.Equal) /\ Become(Op.Equal, eq(Decoded))
    \/ Fetch(Op.GreaterThan) /\ Become(Op.GreaterThan, gt(Decoded))
    \/ Fetch(Op.LessThan) /\ Become(Op.LessThan, lt(Decoded))
    \/ Fetch(Op.Nil) /\ Become(Op.Nil, imm_nil(Decoded))
    \/ Fetch(Op.True) /\ Become(Op.True, imm_true(Decoded))
    \/ Fetch(Op.False) /\ Become(Op.False, imm_false(Decoded))
    \/ Fetch(Op.Pop) /\ Become(Op.Pop, pop_op(Decoded))
    \/ Fetch(Op.GetGlobal) /\ Become(Op.GetGlobal, get_global(Decoded, Code))
    \/ Fetch(Op.SetGlobal) /\ Become(Op.SetGlobal, set_global(Decoded, Code))
    \/ Fetch(Op.DefineGlobal) /\ Become(Op.DefineGlobal, define_global(Decoded, Code))
    \/ Fetch(Op.GetLocal) /\ Become(Op.GetLocal, get_local(Decoded, Code))
    \/ Fetch(Op.SetLocal) /\ Become(Op.SetLocal, set_local(Decoded, Code))
    \/ Fetch(Op.Immediate) /\ Become(Op.Immediate, immediate(Decoded, Code))
    \/ Fetch(Op.Jump) /\ Become(Op.Jump, jmp(Decoded, Code))
    \/ Fetch(Op.JumpIfFalse) /\ Become(Op.JumpIfFalse, jze(Decoded, Code))
    \/ DoCall
    \/ DoReturn

\* VM::run returns: the loop condition `self.frame().ip < l` is false
Halt ==
    /\ mode = "vm" /\ vstatus = "running"
    /\ frame(Current).ip >= ChunkLen(chunk)
    /\ vstatus' = "done"
    /\ UNCHANGED <<hvars, mode, chunk, frames, stack, globals, vout, vlog, steps, lastop,
                   pvars, evars>>

\* a line of stderr: the text before the message, and the message
Line(prefix, msg) == [prefix |-> prefix, msg |-> msg]

\* the message of the panic that ended the compiler or the handler of lastop
PanicMessage == lastop.msg

\* main once `execute` is over.  VM::run returned: `execute` gives Ok(()),
\* main falls off its end and the status is 0.  A handler panicked: the
\* panic unwinds main, the runtime writes its own report and the status is
\* 101; the arm `if let Err(err) = res` is not taken.
Exit ==
    /\ mode = "vm" /\ vstatus \in {"done", "panic"}
    /\ ~proc.exited
    /\ proc' = IF vstatus = "done"
               THEN [proc EXCEPT !.exited = TRUE, !.status = 0]
               ELSE [proc EXCEPT !.exited = TRUE, !.status = 101,
                                 !.stderr = Append(@, Line("thread 'main' panicked at ",
                                                           PanicMessage))]
    /\ UNCHANGED <<mode, heap, compiler, probe, pvars, evars, vmvars>>

Next == EvalStep \/ EvalReturn \/ Compile \/ decode_op \/ Halt \/ Exit

Spec == Init /\ [][Next]_vars


(***************************************************************************)
(* Claims about the evaluator, the compiler and the VM, checked under      *)
(* Spec.  program[2] is the statement between `var x = 0;` and `print x;`; *)
(* program is empty when the VM runs an assembled chunk.                   *)
(***************************************************************************)
\* C1: after Stmt::Block.eval returns, Ok or Err, the current environment
\* is the one that was current before the block: the chain is as deep as it
\* was.
C1_BlockRestoresEnv ==
    lastblock.seen => Len(lastblock.after) = Len(lastblock.before)

\* the last instruction was op with a string constant as its operand, and
\* the globals map had no entry of that name
MissingGlobal(op) ==
    /\ lastop.op = op
    /\ lastop.arg < Len(chunk.constants)
    /\ chunk.constants[lastop.arg + 1].t = "String"
    /\ chunk.constants[lastop.arg + 1].s \notin DOMAIN lastop.gl

\* C12: GetGlobal or SetGlobal of a name that is not in the globals map is a
\* runtime error: nothing is pushed and the globals map is left as it was
\* (SetGlobal creates no binding).
C12_MissingGlobalIsError ==
    (MissingGlobal(Op.GetGlobal) \/ MissingGlobal(Op.SetGlobal)) =>
        /\ vstatus = "panic"
        /\ globals = lastop.gl
        /\ stack = lastop.before

\* the VM has just run the code of program[1], the global declaration
\* `var x = 0;`, and nothing else
AfterDeclaration ==
    /\ mode = "vm" /\ vstatus = "running"
    /\ program # <<>>
    /\ program[1].k = "SVar"
    /\ steps = 2
    /\ frame(Current).ip = ChunkLen(compile(<<program[1]>>, chunk.base).chunk)

\* C13: the code compiled for a global `var` declaration consumes the value
\* of its initializer: the VM stack is as high after the declaration as it
\* was before it (empty, for the first statement of a program).
C13_DeclarationConsumesValue ==
    AfterDeclaration => stack = <<>>

RECURSIVE ShadowOutput(_, _)
\* what ShadowBlock(d, n) must print: d, the output of the inner block, and
\* d again once the inner block is over
ShadowOutput(d, n) ==
    <<Number(d)>> \o (IF d < n THEN ShadowOutput(d + 1, n) \o <<Number(d)>> ELSE <<>>)

\* C16: a `var` declared inside a block shadows the outer variable of the
\* same name inside that block only: once the block has completed, the name
\* reads as the outer binding, whose value the inner declaration left alone,
\* at any nesting depth (`var x = 0; { var x = 1; print x; } print x;`
\* prints 1 then 0).
C16_ShadowingEndsWithBlock ==
    \A n \in 1..MaxDepth :
        (mode = "eval" /\ program[2] = ShadowBlock(1, n)) =>
            /\ estatus \in {"running", "ok"}
            /\ epc > 2 => (Len(env) = 1 /\ EnvLookup(env, "x") = Number(0))
            /\ epc > 3 => eout = ShadowOutput(1, n) \o <<Number(0)>>

\* the evaluator has run blocks nested MaxDepth deep, each shadowing x, and
\* the `print x;` that follows them
C16_Witness ==
    /\ program # <<>>
    /\ program[2] = ShadowBlock(1, MaxDepth)
    /\ MaxDepth > 1
    /\ epc > 3 /\ estatus = "ok"
    /\ Len(eout) = 2 * MaxDepth

\* program[2] is `print l == r;` or `print l != r;` with literals l and r
\* (numbers, nil, a string), and the evaluator is past it
PrintedEquality ==
    /\ program # <<>>
    /\ program[2].k = "SPrint"
    /\ program[2].expr.k = "Binary"
    /\ program[2].expr.operator \in {"Equal", "BangEq"}
    /\ program[2].expr.lhs.k = "Literal"
    /\ program[2].expr.rhs.k = "Literal"
    /\ epc > 2

\* C14: in the evaluator `l == r` evaluates without error to the boolean of
\* the value equality rule (values of different types are unequal) and
\* `l != r` to its negation, for values of any types.
C14_EqualityOverAllValues ==
    PrintedEquality =>
        /\ estatus \in {"running", "ok"}
        /\ eout = <<Bool((program[2].expr.lhs.value = program[2].expr.rhs.value)
                          = (program[2].expr.operator = "Equal"))>>

\* program[2] is `print a op b;` with number literals a and b
PrintsComparison(op) ==
    /\ program # <<>>
    /\ program[2].k = "SPrint"
    /\ program[2].expr.k = "Binary"
    /\ program[2].expr.operator = op
    /\ program[2].expr.lhs.k = "Literal" /\ program[2].expr.lhs.value.t = "Number"
    /\ program[2].expr.rhs.k = "Literal" /\ program[2].expr.rhs.value.t = "Number"

\* C26: whenever the VM executes GetLocal(i) or SetLocal(i) the slot exists:
\* stack_start + i is smaller than the length of the stack, also when a
\* block that declared earlier locals was skipped by an `if`.
C26_LocalSlotExists ==
    (mode = "vm" /\ lastop.op \in {Op.GetLocal, Op.SetLocal}) =>
        lastop.start + lastop.arg < Len(lastop.before)

\* the parts of an `if` or a `while` that leave the stack as they find it
NeutralPart(s) == s.k \in {"SPrint", "SExpr"}
NeutralJump(s) ==
    \/ s.k = "While" /\ NeutralPart(s.body)
    \/ /\ s.k = "If" /\ NeutralPart(s.then_clause)
       /\ \A i \in 1..Len(s.else_clause) : NeutralPart(s.else_clause[i])

\* C27: a compiled `if` or `while` whose branches or body are stack-neutral
\* is stack-neutral: the stack is as high when the VM reaches the
\* instruction after the statement as it was just before the condition was
\* evaluated, whichever way the condition went.
C27_JumpsStackNeutral ==
    (/\ mode = "vm" /\ program # <<>>
     /\ NeutralJump(program[2]) /\ {2, 3} \subseteq DOMAIN lastop.heights) =>
        lastop.heights[3] = lastop.heights[2]

\* the handler of lastop popped or peeked an empty stack, or computed a
\* stack index below zero
Underflow ==
    \/ /\ lastop.op \in {Op.Print, Op.Pop, Op.Not, Op.Negate, Op.JumpIfFalse,
                          Op.SetGlobal, Op.DefineGlobal, Op.SetLocal}
       /\ lastop.before = <<>>
    \/ /\ lastop.op \in {Op.Add, Op.Subtract, Op.Multiply, Op.Divide, Op.Equal,
                          Op.GreaterThan, Op.LessThan}
       /\ Len(lastop.before) < 2
    \/ /\ lastop.op = Op.Call
       /\ (Len(lastop.before) - 1) - (lastop.arg + 1) < 0

\* C28: on a chunk that Compiler::compile produced the VM never pops or
\* peeks an empty stack and never computes a stack index below zero, call
\* expressions included.
C28_NoUnderflow == (mode = "vm" /\ program # <<>>) => ~Underflow

\* C22: when the VM run of a script hits a runtime error (an undefined
\* global, an operand of the wrong type, a callee that is no function, a
\* Return in the top-level frame), the process writes the one line
\* `[error]: <msg>` and ends with status 2.
RuntimeError ==
    /\ mode = "vm" /\ vstatus = "panic" /\ program # <<>>
    /\ lastop.op \in {Op.GetGlobal, Op.Add, Op.Subtract, Op.Multiply, Op.Divide,
                      Op.GreaterThan, Op.LessThan, Op.Negate, Op.Call, Op.Return}
C22_RuntimeErrorExit ==
    (proc.exited /\ RuntimeError) =>
        /\ proc.status = 2
        /\ Len(proc.stderr) = 1
        /\ proc.stderr[1].prefix = "[error]: "

\* C5: the bytecode of `a >= b` yields true exactly when a >= b, and that of
\* `a <= b` exactly when a <= b: the value the VM prints for it is that one.
C5_GreaterEqLessEq ==
    \A op \in {"GreaterThanEq", "LessThanEq"} :
        (mode = "vm" /\ PrintsComparison(op) /\ vout # <<>>) =>
            vout[1] = Bool(Compare(op, program[2].expr.lhs.value,
                                   program[2].expr.rhs.value))

\* C6: a program the evaluator runs to its end and the VM runs to its end
\* prints the same sequence of values on both.
C6_SameOutput ==
    (estatus = "ok" /\ vstatus = "done") => vout = eout

\* e is (x = n)
IsAssignLeaf(e) == e.k = "Grouping" /\ e.inner.k = "Assign"

\* program[2] is `print (x = a) op (x = b);`
PrintsBinaryOfAssigns ==
    /\ program # <<>>
    /\ program[2].k = "SPrint"
    /\ program[2].expr.k = "Binary"
    /\ IsAssignLeaf(program[2].expr.lhs)
    /\ IsAssignLeaf(program[2].expr.rhs)

\* the writes to x of `var x = 0; print (x = a) op (x = b);`, left then right
LeftThenRight ==
    <<<<"x", Number(0)>>,
      <<"x", program[2].expr.lhs.inner.expr.value>>,
      <<"x", program[2].expr.rhs.inner.expr.value>>>>

\* C7: for every binary operator the left operand is evaluated before the
\* right one in both backends: the assignments in the operands occur left
\* then right.
C7_LeftBeforeRight ==
    PrintsBinaryOfAssigns =>
        /\ estatus = "ok" => elog = LeftThenRight
        /\ vstatus = "done" => vlog = LeftThenRight

\* e is a literal or (x = n)
IsPlainLeaf(e) == e.k = "Literal" \/ IsAssignLeaf(e)

\* program[2] is `print l op r;`, op `and` or `or`, l and r literals or (x = n)
PrintsLogical ==
    /\ program # <<>>
    /\ program[2].k = "SPrint"
    /\ program[2].expr.k = "Logical"
    /\ IsPlainLeaf(program[2].expr.lhs)
    /\ IsPlainLeaf(program[2].expr.rhs)

\* the value of a literal or of (x = n), and the writes to x it makes
LeafValue(e) == IF e.k = "Literal" THEN e.value ELSE e.inner.expr.value
LeafWrites(e) == IF e.k = "Literal" THEN <<>> ELSE <<<<"x", LeafValue(e)>>>>

\* whether r of `l op r` is to be skipped
Skips(op, l) ==
    IF op = "And" THEN LeafValue(l) \in {Nil, False}
    ELSE LeafValue(l) \notin {Nil, False}

LogicalValue(e) ==
    IF Skips(e.operator, e.lhs) THEN LeafValue(e.lhs) ELSE LeafValue(e.rhs)
LogicalWrites(e) ==
    <<<<"x", Number(0)>>>> \o LeafWrites(e.lhs)
        \o (IF Skips(e.operator, e.lhs) THEN <<>> ELSE LeafWrites(e.rhs))

\* C8: the bytecode of `l and r` runs r only when l is truthy, that of
\* `l or r` only when l is falsy, and leaves one value, l's when r was
\* skipped and r's otherwise; Logical::eval gives the same value and makes
\* the same writes.  At the Print of the expression the stack holds that
\* value above the one `var x = 0;` left.
C8_ShortCircuit ==
    PrintsLogical =>
        /\ (mode = "vm" /\ Len(vout) = 1 /\ lastop.op = Op.Print) =>
              /\ lastop.before = <<Number(0), LogicalValue(program[2].expr)>>
              /\ vout = <<LogicalValue(program[2].expr)>>
              /\ vlog = LogicalWrites(program[2].expr)
        /\ (mode = "vm" /\ vstatus \in {"done", "panic"}) => Len(vout) = 2
        /\ mode # "eval" =>
              /\ estatus = "ok"
              /\ eout[1] = LogicalValue(program[2].expr)
              /\ elog = LogicalWrites(program[2].expr)

\* `print nil and (x = 1);` has printed nil on the VM without writing x
C8_Witness ==
    /\ PrintsLogical
    /\ program[2].expr.operator = "And"
    /\ program[2].expr.lhs = Literal(Nil)
    /\ IsAssignLeaf(program[2].expr.rhs)
    /\ vstatus = "done"
    /\ vout[1] = Nil
    /\ vlog = <<<<"x", Number(0)>>>>

(***************************************************************************)
(* SpecCompile: Compiler::compile on `var x = 0; s print x;`, s an `if` or *)
(* a `while`, after a prefix of up to MaxFiller statements `print 1;`.     *)
(***************************************************************************)
FillerCounts == {0, 1} \cup {n \in 0..MaxFiller : n >= MaxFiller - 3}

InitCompile ==
    /\ mode = "compile"
    /\ program \in {ProgramOf(s) : s \in JumpStmts}
    /\ epc = 1 /\ env = EnvNew /\ eout = <<>> /\ elog = <<>>
    /\ estatus = "idle" /\ lastblock = NoBlock /\ lastexpr = NoExpr
    /\ \E n \in FillerCounts : chunk = NewChunk(FillerLen * n)
    /\ frames = <<>> /\ stack = <<>> /\ globals = NoGlobals
    /\ vout = <<>> /\ vlog = <<>> /\ vstatus = "idle" /\ steps = 0 /\ lastop = NoOp
    /\ ParserIdle /\ HostIdle

NextCompile == Compile

SpecCompile == InitCompile /\ [][NextCompile]_vars

RECURSIVE OpcodeOffsets(_, _)
\* the offsets of the opcodes of the code from off on, off one of them
OpcodeOffsets(ch, off) ==
    IF off >= ChunkLen(ch) THEN {}
    ELSE {off} \cup OpcodeOffsets(ch, off + 1 + OperandBytes(ChunkGet(ch, off)))

\* whether t is the offset of an opcode of the chunk
IsOpcodeOffset(ch, t) ==
    IF t < ch.base THEN t % FillerLen \in {0, FillerLen - 1}
    ELSE t \in OpcodeOffsets(ch, ch.base)

\* the target the VM reads for the jump whose opcode is at offset o
TargetRead(ch, o) ==
    read_u16(set_ip(Machine(<<NewFrame("main", 0)>>, <<>>, NoGlobals, <<>>, <<>>),
                    o + 1), ch)

\* C9: after Compiler::compile, whatever the size of the program, the target
\* the VM reads from every Jump and JumpIfFalse is the offset of an opcode
\* of the chunk (or its end, where VM::run stops), never a byte inside an
\* operand; an operand left unpatched reads 65535.
C9_JumpTargets ==
    (mode = "vm" /\ vstatus = "running" /\ steps = 0) =>
        \A o \in OpcodeOffsets(chunk, chunk.base) :
            ChunkGet(chunk, o) \in {Op.Jump, Op.JumpIfFalse} =>
                \/ IsOpcodeOffset(chunk, TargetRead(chunk, o))
                \/ TargetRead(chunk, o) = ChunkLen(chunk)

(***************************************************************************)
(* SpecCall: VM::run up to and past a Call or a Return.  The VM starts as  *)
(* VM::new leaves it, with an empty stack and the frame of main at ip 0,   *)
(* and every value a Call finds on the stack was pushed by the             *)
(* instructions before it.  The chunk of main is either compiled from a    *)
(* program that calls a literal after a `var` statement, or written byte   *)
(* by byte, as Chunk::write_byte allows: the compiler emits nothing for a  *)
(* function declaration (compile.rs:77-81), so a chunk whose pool holds a  *)
(* function object, made with Object::function, is one handed to VM::new   *)
(* as it is.  The function "f" has a chunk of one Return, "h" an empty     *)
(* one.                                                                    *)
(***************************************************************************)
\* the constant pool of the chunks written byte by byte
CallPool == <<String("a"), Function("f"), Function("h")>>
CallValues == {Number(0)} \cup {CallPool[i] : i \in 1..Len(CallPool)}
CallStacks == UNION {[1..n -> CallValues] : n \in 0..MaxStack}

\* the instruction that pushes v: Constant with its index in the pool, or
\* Immediate with the raw word of the number
PushCode(v) ==
    IF IsNumber(v) THEN <<Op.Immediate>> \o RawBytes(into_raw(v))
    ELSE <<Op.Constant, (CHOOSE i \in 1..Len(CallPool) : CallPool[i] = v) - 1>>

RECURSIVE PushAll(_)
\* the instructions that push the values of st, the lowest first
PushAll(st) == IF st = <<>> THEN <<>> ELSE PushCode(Head(st)) \o PushAll(Tail(st))

\* the chunks written byte by byte: pushes, then one Call(n) or one Return
CallChunks ==
    {[NewChunk(0) EXCEPT !.code = PushAll(st) \o last, !.constants = CallPool] :
        st \in CallStacks,
        last \in {<<Op.Call, n>> : n \in (0..MaxArity) \cup {255}} \cup {<<Op.Return>>}}

\* `var x = v; l(args);` for literals v and l: the compiled programs that
\* reach a Call with more than the callee on the stack
CallPrograms ==
    {<<SVar("x", Literal(v)), SExpr(Call(Literal(l), args))>> :
        v \in {Number(0), String("a")}, l \in {Number(0), String("a")},
        args \in {<<>>, <<Literal(Number(0))>>}}

InitCall ==
    /\ ParserIdle /\ HostIdle
    /\ \/ /\ mode = "compile"
          /\ program \in CallPrograms
          /\ epc = 1 /\ env = EnvNew /\ eout = <<>> /\ elog = <<>>
          /\ estatus = "idle" /\ lastblock = NoBlock /\ lastexpr = NoExpr
          /\ VMIdle
       \/ /\ mode = "vm"
          /\ chunk \in CallChunks
          /\ frames = <<NewFrame("main", 0)>>
          /\ stack = <<>> /\ globals = NoGlobals
          /\ vout = <<>> /\ vlog = <<>> /\ vstatus = "running" /\ steps = 0
          /\ lastop = NoOp
          /\ EvalIdle

\* VM::run on the chunk: one iteration of its loop
RunCall == mode = "vm" /\ decode_op

\* VM::run when the chunk of the current frame is shorter than that of main:
\* the loop condition `self.frame().ip < l` holds, and read_byte indexes the
\* code of the current frame past its end
FetchPastEnd ==
    /\ mode = "vm" /\ vstatus = "running"
    /\ steps < MaxSteps
    /\ frame(Current).ip < ChunkLen(chunk)
    /\ frame(Current).ip >= ChunkLen(Code)
    /\ vstatus' = "panic"
    /\ steps' = steps + 1
    /\ lastop' = [lastop EXCEPT !.op = NoOp.op,
                                !.msg = IndexMessage(ChunkLen(Code), frame(Current).ip)]
    /\ UNCHANGED <<hvars, mode, chunk, frames, stack, globals, vout, vlog, pvars, evars>>

NextCall == Compile \/ RunCall \/ FetchPastEnd

SpecCall == InitCall /\ [][NextCall]_vars

\* the value Call(n) is applied to: the one under the n values on top
Callee == lastop.before[Len(lastop.before) - lastop.arg]

\* C10: when Call(n) executes with the callee on the stack and exactly n
\* values above it, the value VM::call checks to be a function is the
\* callee and the stack is left as it was: with a callee that is a function
\* it pushes a CallFrame whose stack_start is the index of the callee,
\* stack length - n - 1; with any other callee the call fails on what the
\* callee is, an object that is no function or no object at all.
C10_CallFrameAtCallee ==
    (lastop.op = Op.Call /\ Len(lastop.before) > lastop.arg) =>
        /\ stack = lastop.before
        /\ IF is_function(Callee)
           THEN /\ vstatus = "running"
                /\ Len(frames) = lastop.nframes + 1
                /\ frame(Current).stack_start = Len(lastop.before) - lastop.arg - 1
           ELSE /\ vstatus = "panic"
                /\ lastop.msg = IF Callee.t = "String"
                                THEN "Callframe must be constructed from a function"
                                ELSE "Callee was not an object"

AssignNames == {"x", "y"}
AssignValues == {Number(n) : n \in 0..MaxNum}
AssignFrames == UNION {[d -> AssignValues] : d \in SUBSET AssignNames}
AssignEnvs == UNION {[1..n -> AssignFrames] : n \in 1..MaxDepth}

InitAssign ==
    /\ mode = "expr"
    /\ program \in {<<SExpr(Assign(n, Literal(v)))>> :
                        n \in AssignNames, v \in AssignValues \cup {Nil}}
    /\ env \in AssignEnvs
    /\ epc = 1 /\ eout = <<>> /\ elog = <<>>
    /\ estatus = "running" /\ lastblock = NoBlock /\ lastexpr = NoExpr
    /\ ParserIdle /\ VMIdle /\ HostIdle

\* Expr::eval on the expression of program[1], in the context the variables hold
EvalExprStep ==
    /\ mode = "expr" /\ ~lastexpr.seen
    /\ \E r \in {EvalExpr(program[1].expr, Ctx(env, eout, elog))} :
       /\ env' = r.ctx.env
       /\ eout' = r.ctx.out
       /\ elog' = r.ctx.log
       /\ lastexpr' = [seen |-> TRUE, st |-> r.st, v |-> r.v, before |-> env]
    /\ UNCHANGED <<hvars, mode, program, epc, estatus, lastblock, pvars, vmvars>>

NextAssign == EvalExprStep

SpecAssign == InitAssign /\ [][NextAssign]_vars

\* the innermost frame of e that binds name
NearestFrame(e, name) ==
    CHOOSE i \in 1..Len(e) :
        name \in DOMAIN e[i] /\ \A j \in 1..Len(e) : name \in DOMAIN e[j] => j <= i

\* e1 is e0 but for the value v of name in frame i
UpdatedAt(e0, e1, i, name, v) ==
    /\ Len(e1) = Len(e0)
    /\ \A j \in 1..Len(e0) :
          /\ DOMAIN e1[j] = DOMAIN e0[j]
          /\ \A n \in DOMAIN e0[j] :
                e1[j][n] = IF j = i /\ n = name THEN v ELSE e0[j][n]

\* C15: Assign(name, e) updates the nearest binding of name in the chain to
\* the value of e and yields that value; when no frame binds name it fails
\* with UndefinedVariable and no frame is changed.
C15_AssignRebindsNearest ==
    lastexpr.seen =>
        IF \E i \in 1..Len(lastexpr.before) :
               program[1].expr.name \in DOMAIN lastexpr.before[i]
        THEN /\ lastexpr.st = "ok"
             /\ lastexpr.v = program[1].expr.expr.value
             /\ UpdatedAt(lastexpr.before, env,
                          NearestFrame(lastexpr.before, program[1].expr.name),
                          program[1].expr.name, lastexpr.v)
        ELSE /\ lastexpr.st = "err"
             /\ lastexpr.v = String("UndefinedVariable")
             /\ env = lastexpr.before

\* an assignment to a name bound in an outer frame and in an inner frame
\* has been evaluated, to a value neither of them had
C15_Witness ==
    /\ lastexpr.seen
    /\ Len(lastexpr.before) = 2
    /\ program[1].expr.name \in DOMAIN lastexpr.before[1]
    /\ program[1].expr.name \in DOMAIN lastexpr.before[2]
    /\ lastexpr.before[1][program[1].expr.name] # lastexpr.v
    /\ lastexpr.before[2][program[1].expr.name] # lastexpr.v


(***************************************************************************)
(* SpecSyntax: Parser::parse on the token streams of one statement: `for`  *)
(* statements with each clause present or omitted, and expression          *)
(* statements `a op1 y op2 1;` over every pair of operators, bare or with  *)
(* one of the two operations parenthesised.                                *)
(***************************************************************************)
TokIdent(name) == [ty |-> "Identifier", value |-> name, n |-> 0]

\* pieces of source text: the tokens and the node they stand for
Piece(toks, node) == [toks |-> toks, node |-> node]

\* the operator tokens, and `=`
OperatorTokens ==
    {"Or", "And", "BangEq", "EqualEq", "GreaterThan", "GreaterThanEq",
     "LessThan", "LessThanEq", "Plus", "Minus", "Slash", "Star"}
ChainTokens == OperatorTokens \cup {"Equal"}

\* first operands: x, 1, (x), -x, !x, (-x)
FirstOperands ==
    {Piece(<<TokIdent("x")>>, Var("x")),
     Piece(<<TokNumber(1)>>, Literal(Number(1))),
     Piece(<<Tok("LeftParen"), TokIdent("x"), Tok("RightParen")>>, Grouping(Var("x"))),
     Piece(<<Tok("Minus"), TokIdent("x")>>, Unary("Minus", Var("x"))),
     Piece(<<Tok("Bang"), TokIdent("x")>>, Unary("Bang", Var("x"))),
     Piece(<<Tok("LeftParen"), Tok("Minus"), TokIdent("x"), Tok("RightParen")>>,
           Grouping(Unary("Minus", Var("x"))))}

\* `a op 1;`
Single(a, op) == a.toks \o <<Tok(op), TokNumber(1), Tok("Semicolon")>>
\* `a op1 y op2 1;`
Chain(a, op1, op2) ==
    a.toks \o <<Tok(op1), TokIdent("y"), Tok(op2), TokNumber(1), Tok("Semicolon")>>
\* `a op1 (y op2 1);`
ChainRight(a, op1, op2) ==
    a.toks \o <<Tok(op1), Tok("LeftParen"), TokIdent("y"), Tok(op2), TokNumber(1),
                Tok("RightParen"), Tok("Semicolon")>>
\* `(a op1 y) op2 1;`
ChainLeft(a, op1, op2) ==
    <<Tok("LeftParen")>> \o a.toks
    \o <<Tok(op1), TokIdent("y"), Tok("RightParen"), Tok(op2), TokNumber(1),
         Tok("Semicolon")>>

ExprStreams ==
    {Single(a, op) : a \in FirstOperands, op \in ChainTokens}
    \cup {Chain(a, op1, op2) : a \in FirstOperands, op1 \in ChainTokens, op2 \in ChainTokens}
    \cup {ChainRight(a, op1, op2) :
             a \in FirstOperands, op1 \in ChainTokens, op2 \in ChainTokens}
    \cup {ChainLeft(a, op1, op2) :
             a \in FirstOperands, op1 \in ChainTokens, op2 \in ChainTokens}

\* the clauses of a `for`; an omitted clause has no tokens and no node
Omitted == Piece(<<>>, <<>>)
ForInits ==
    {Omitted,
     Piece(<<TokIdent("x"), Tok("Equal"), TokNumber(0)>>,
           <<SExpr(Assign("x", Literal(Number(0))))>>),
     Piece(<<Tok("Var"), TokIdent("x"), Tok("Equal"), TokNumber(0)>>,
           <<SVar("x", Literal(Number(0)))>>),
     Piece(<<Tok("Var"), TokIdent("x")>>, <<SVar("x", Literal(Nil))>>)}
ForConditions ==
    {Omitted,
     Piece(<<TokIdent("x"), Tok("LessThan"), TokNumber(1)>>,
           <<Binary("LessThan", Var("x"), Literal(Number(1)))>>)}
ForIncrements ==
    {Omitted,
     Piece(<<TokIdent("x"), Tok("Equal"), TokIdent("x"), Tok("Plus"), TokNumber(1)>>,
           <<Assign("x", Binary("Plus", Var("x"), Literal(Number(1))))>>)}
ForBodies ==
    {Piece(<<Tok("Print"), TokIdent("x"), Tok("Semicolon")>>, <<SPrint(Var("x"))>>),
     Piece(<<TokIdent("x"), Tok("Semicolon")>>, <<SExpr(Var("x"))>>),
     Piece(<<Tok("LeftBrace"), Tok("Print"), TokIdent("x"), Tok("Semicolon"),
             Tok("RightBrace")>>, <<Block(<<SPrint(Var("x"))>>)>>)}

\* `for (init; cond; incr) body`
ForTokens(init, cond, incr, body) ==
    <<Tok("For"), Tok("LeftParen")>> \o init.toks \o <<Tok("Semicolon")>>
    \o cond.toks \o <<Tok("Semicolon")>> \o incr.toks \o <<Tok("RightParen")>>
    \o body.toks

ForStreams ==
    {ForTokens(i, c, n, b) :
        i \in ForInits, c \in ForConditions, n \in ForIncrements, b \in ForBodies}

InitSyntax ==
    /\ mode = "parse"
    /\ tokens \in ExprStreams \cup ForStreams
    /\ pos = 0 /\ statements = <<>> /\ errors = <<>>
    /\ presult = "running" /\ lastcall = NoCall
    /\ EvalIdle /\ VMIdle /\ HostIdle

NextSyntax == ParseOk \/ ParseErr \/ ParseReturn

SpecSyntax == InitSyntax /\ [][NextSyntax]_vars


\* the condition of the loop: the one written, or else the literal `true`
ForCondition(cond) == IF cond = Omitted THEN Literal(True) ELSE cond.node[1]

\* `{ init; while (cond) { body; incr; } }`, an omitted clause left out of
\* its block
FullDesugaring(init, cond, incr, body) ==
    Block(init.node
          \o <<While(ForCondition(cond),
                     Block(body.node \o (IF incr = Omitted THEN <<>>
                                         ELSE <<SExpr(incr.node[1])>>)))>>)

\* C17 as claimed: every `for (init; cond; incr) body` parses to a block
\* holding the initializer and then a while loop, whose body is a block of
\* the original body and then the increment as an expression statement; an
\* omitted condition is the literal `true`.
C17_ForDesugarsToBlock ==
    \A i \in ForInits, c \in ForConditions, n \in ForIncrements, b \in ForBodies :
        (tokens = ForTokens(i, c, n, b) /\ presult # "running") =>
            /\ presult = "Ok"
            /\ statements = <<FullDesugaring(i, c, n, b)>>

\* C17, amended: `for (init; cond; incr) body` parses to
\* `{ init; while (cond) { body; incr; } }`, where an omitted condition is the
\* literal `true`, a loop with no increment has the original body itself as
\* its body, and a loop with no initializer is the while loop itself, with
\* no block around it.
C17_ForDesugars ==
    \A i \in ForInits, c \in ForConditions, n \in ForIncrements, b \in ForBodies :
        (tokens = ForTokens(i, c, n, b) /\ presult # "running") =>
            /\ presult = "Ok"
            /\ statements =
                  <<IF i = Omitted
                    THEN While(ForCondition(c),
                               IF n = Omitted THEN b.node[1]
                               ELSE Block(<<b.node[1], SExpr(n.node[1])>>))
                    ELSE Block(<<i.node[1],
                                 While(ForCondition(c),
                                       IF n = Omitted THEN b.node[1]
                                       ELSE Block(<<b.node[1], SExpr(n.node[1])>>))>>)>>

\* a `for` with all three clauses has been parsed, and so has one with none
C17_Witness ==
    /\ presult = "Ok"
    /\ \E i \in ForInits \ {Omitted}, c \in ForConditions \ {Omitted},
          n \in ForIncrements \ {Omitted}, b \in ForBodies :
          tokens = ForTokens(i, c, n, b)
    /\ statements # <<>>


\* the precedence levels, loosest first: assignment, or, and, equality,
\* comparison, term, factor
Tightness(op) ==
    CASE op = "Equal" -> 0
      [] op = "Or" -> 1
      [] op = "And" -> 2
      [] op \in {"BangEq", "EqualEq"} -> 3
      [] op \in {"GreaterThan", "GreaterThanEq", "LessThan", "LessThanEq"} -> 4
      [] op \in {"Plus", "Minus"} -> 5
      [] op \in {"Slash", "Star"} -> 6

\* the node of `l op r` for an operator token op
Operation(op, l, r) ==
    CASE op \in {"Or", "And"} -> Logical(op, l, r)
      [] op = "EqualEq" -> Binary("Equal", l, r)
      [] OTHER -> Binary(op, l, r)

\* ts is `a op1 y op2 1;`: the operators at their places
Op1(ts, a) == ts[Len(a.toks) + 1].ty
Op2(ts, a) == ts[Len(a.toks) + 3].ty
IsChain(ts, a) ==
    /\ Len(ts) = Len(a.toks) + 5
    /\ Op1(ts, a) \in ChainTokens /\ Op2(ts, a) \in ChainTokens
    /\ ts = Chain(a, Op1(ts, a), Op2(ts, a))

\* C18: a chain `a op b op c` of binary or logical operators of one
\* precedence level parses as ((a op b) op c), and `a = b = c` parses as
\* Assign(a, Assign(b, c)).
C18_Associativity ==
    \A a \in FirstOperands :
        (IsChain(tokens, a) /\ presult # "running") =>
            /\ (/\ Op1(tokens, a) # "Equal"
                /\ Tightness(Op1(tokens, a)) = Tightness(Op2(tokens, a))) =>
                   /\ presult = "Ok"
                   /\ statements =
                         <<SExpr(Operation(Op2(tokens, a),
                                           Operation(Op1(tokens, a), a.node, Var("y")),
                                           Literal(Number(1))))>>
            /\ (/\ Op1(tokens, a) = "Equal" /\ Op2(tokens, a) = "Equal"
                /\ a.node = Var("x")) =>
                   /\ presult = "Ok"
                   /\ statements =
                         <<SExpr(Assign("x", Assign("y", Literal(Number(1)))))>>

\* `x - y + 1;` has been parsed, two different operators of the level of term
C18_Witness ==
    /\ tokens = Chain(Piece(<<TokIdent("x")>>, Var("x")), "Minus", "Plus")
    /\ presult = "Ok"
    /\ statements # <<>>


RECURSIVE Ungrouped(_)
\* an expression without its Grouping nodes
Ungrouped(e) ==
    CASE e.k = "Grouping" -> Ungrouped(e.inner)
      [] e.k \in {"Binary", "Logical"} ->
            [e EXCEPT !.lhs = Ungrouped(e.lhs), !.rhs = Ungrouped(e.rhs)]
      [] e.k = "Unary" -> [e EXCEPT !.unary = Ungrouped(e.unary)]
      [] e.k = "Assign" -> [e EXCEPT !.expr = Ungrouped(e.expr)]
      [] OTHER -> e

\* the expression a stream of one expression statement parses to
Parsed(ts) == declaration(ts, 0).node.expr

\* C19: a tighter operator ends up below an adjacent looser one, never above
\* it, unless parentheses say otherwise: `a op1 y op2 1` has op1 at its root
\* over (y op2 1) when op2 is tighter than op1, and op2 at its root over
\* (a op1 y) when op1 is tighter; a prefix `-` or `!` binds tighter than any
\* binary operator; and the tree is the one of the parenthesised text but
\* for the Grouping node (`x + y * 1` as `x + (y * 1)`, `-x * 1` as
\* `(-x) * 1`).
C19_Precedence ==
    /\ \A a \in FirstOperands :
           (/\ IsChain(tokens, a) /\ presult # "running"
            /\ Op1(tokens, a) # "Equal" /\ Op2(tokens, a) # "Equal") =>
               /\ presult = "Ok"
               /\ Tightness(Op2(tokens, a)) > Tightness(Op1(tokens, a)) =>
                     /\ statements =
                           <<SExpr(Operation(Op1(tokens, a), a.node,
                                             Operation(Op2(tokens, a), Var("y"),
                                                       Literal(Number(1)))))>>
                     /\ Ungrouped(statements[1].expr) =
                           Ungrouped(Parsed(ChainRight(a, Op1(tokens, a), Op2(tokens, a))))
               /\ Tightness(Op1(tokens, a)) > Tightness(Op2(tokens, a)) =>
                     /\ statements =
                           <<SExpr(Operation(Op2(tokens, a),
                                             Operation(Op1(tokens, a), a.node, Var("y")),
                                             Literal(Number(1))))>>
                     /\ Ungrouped(statements[1].expr) =
                           Ungrouped(Parsed(ChainLeft(a, Op1(tokens, a), Op2(tokens, a))))
               /\ a.node.k = "Unary" =>
                     Ungrouped(statements[1].expr) =
                        Ungrouped(Parsed(Chain(
                            Piece(<<Tok("LeftParen")>> \o a.toks \o <<Tok("RightParen")>>,
                                  Grouping(a.node)),
                            Op1(tokens, a), Op2(tokens, a))))
    /\ \A a \in {Piece(<<TokIdent("x")>>, Var("x"))} :
          (/\ IsChain(tokens, a) /\ presult # "running"
           /\ Op1(tokens, a) = "Equal" /\ Op2(tokens, a) # "Equal") =>
              /\ presult = "Ok"
              /\ statements =
                    <<SExpr(Assign("x", Operation(Op2(tokens, a), Var("y"),
                                                  Literal(Number(1)))))>>

\* `-x + y * 1;` has been parsed: a prefix operator, a looser operator and a
\* tighter one after it
C19_Witness ==
    /\ tokens = Chain(Piece(<<Tok("Minus"), TokIdent("x")>>, Unary("Minus", Var("x"))),
                      "Plus", "Star")
    /\ presult = "Ok"
    /\ statements # <<>>


\* ts is `a op 1;`
IsSingle(ts, a) ==
    /\ Len(ts) = Len(a.toks) + 3
    /\ ts = Single(a, ts[Len(a.toks) + 1].ty)

\* ts is `(a op1 y) op2 1;`
IsChainLeft(ts, a) ==
    /\ Len(ts) = Len(a.toks) + 7
    /\ ts = ChainLeft(a, ts[Len(a.toks) + 2].ty, ts[Len(a.toks) + 5].ty)

\* the statement failed with InvalidAssignment and nothing else
FailedInvalidAssignment ==
    /\ presult = "Err"
    /\ errors = <<SyntaxError("InvalidAssignment")>>
    /\ statements = <<>>

\* C20: when `=` follows a left-hand side that is no plain variable
\* reference (a literal, a unary or binary expression, a parenthesised
\* variable or expression), the statement fails with InvalidAssignment;
\* when the left-hand side is a variable the result is Assign(name, value)
\* and there is no error.
C20_InvalidAssignment ==
    \A a \in FirstOperands :
        presult # "running" =>
            /\ (IsSingle(tokens, a) /\ tokens[Len(a.toks) + 1].ty = "Equal") =>
                  IF a.node.k = "Var"
                  THEN /\ presult = "Ok" /\ errors = <<>>
                       /\ statements = <<SExpr(Assign(a.node.name, Literal(Number(1))))>>
                  ELSE FailedInvalidAssignment
            /\ (/\ IsChain(tokens, a)
                /\ Op1(tokens, a) # "Equal" /\ Op2(tokens, a) = "Equal") =>
                  FailedInvalidAssignment
            /\ (IsChainLeft(tokens, a) /\ tokens[Len(a.toks) + 5].ty = "Equal") =>
                  FailedInvalidAssignment

\* `(x) = 1;` has been parsed, and has failed
C20_Witness ==
    /\ tokens = Single(Piece(<<Tok("LeftParen"), TokIdent("x"), Tok("RightParen")>>,
                             Grouping(Var("x"))), "Equal")
    /\ presult = "Err"


(***************************************************************************)
(* SpecCli: main of the bytecode command line (src/vm/src/main.rs) on a    *)
(* script: `execute` reads the file, parses it, and on Ok compiles the     *)
(* statements and runs the chunk.  The parser runs as in SpecParser.       *)
(* parser::resolve is not in the sources: what it rejects is not known, so *)
(* after any parse that returned Ok it either succeeds or returns errors.  *)
(***************************************************************************)
Sources == {ts \in TokenStreams : Len(ts) <= MaxSource}

InitCli ==
    /\ mode = "parse"
    /\ \/ /\ tokens \in Sources
          /\ presult = "running"
          /\ proc \in Builds
       \/ /\ tokens = <<>>
          /\ presult = "idle"
          /\ proc \in {[b EXCEPT !.file = "missing"] : b \in Builds}
    /\ pos = 0 /\ statements = <<>> /\ errors = <<>> /\ lastcall = NoCall
    /\ heap = {} /\ CompilerIdle
    /\ EvalIdle /\ VMIdle

\* parse (main.rs:81-84): File::open or read_to_string fails, `?` returns
\* the Err through execute, and main prints it and exits with 2
ReadFails ==
    /\ mode = "parse" /\ proc.file = "missing" /\ ~proc.exited
    /\ proc' = [proc EXCEPT !.exited = TRUE, !.status = 2,
                            !.stderr = Append(@, Line("[error]: ", "io"))]
    /\ UNCHANGED <<mode, heap, compiler, probe, pvars, evars, vmvars>>

\* report_and_bail! has its Err(errors) in hand: parser::parse returned it
\* (main.rs:85), or parser::resolve did (main.rs:86)
Reported == (mode = "parse" /\ presult = "Err") \/ mode = "resolve"

\* show_errors as it would be if it printed the first error only
show_errorsFirst ==
    /\ Reported /\ ~proc.exited
    /\ proc' = [proc EXCEPT
                   !.exited = TRUE, !.status = 1,
                   !.stderr = Append(@, Line("[error]: Parse: ", errors[1]))]
    /\ UNCHANGED <<mode, heap, compiler, probe, pvars, evars, vmvars>>

\* show_errors (main.rs:90-95), reached through report_and_bail!
show_errors ==
    /\ Reported /\ ~proc.exited
    /\ proc' = [proc EXCEPT
                   !.exited = TRUE, !.status = 1,
                   !.stderr = @ \o [i \in 1..Len(errors) |->
                                      Line("[error]: Parse: ", errors[i])]]
    /\ UNCHANGED <<mode, heap, compiler, probe, pvars, evars, vmvars>>

\* the errors parser::resolve may return
ResolveErrors == {<<"ResolveError">>, <<"ResolveError", "ResolveError">>}

\* parse (main.rs:86): parser::parse returned Ok(stmts) and parser::resolve
\* returns Err(errors)
ResolveFails ==
    /\ mode = "parse" /\ presult = "Ok"
    /\ errors' \in ResolveErrors
    /\ mode' = "resolve"
    /\ UNCHANGED <<hvars, tokens, pos, statements, presult, lastcall, evars, vmvars>>

\* parse (main.rs:85-87) returns Ok(stmts) and execute goes on to the VM
Execute ==
    /\ mode = "parse" /\ presult = "Ok"
    /\ program' = statements
    /\ mode' = "compile"
    /\ UNCHANGED <<hvars, pvars, vmvars, epc, env, eout, elog, estatus, lastblock,
                   lastexpr>>

\* VM::run on the chunk of the script: one iteration of its loop
RunScript == proc.file = "read" /\ decode_op

NextCli ==
    \/ ReadFails \/ ParseOk \/ ParseErr \/ ParseReturn
    \/ show_errors \/ ResolveFails \/ Execute \/ Compile \/ RunScript \/ Halt
    \/ Exit

\* main, the compiler and the VM take the steps they can take.  Nothing is
\* asked of the loop of Parser::parse, which need not return.
SpecCli ==
    /\ InitCli /\ [][NextCli]_vars
    /\ WF_vars(ReadFails \/ show_errors \/ ResolveFails \/ Execute \/ Compile
                   \/ RunScript \/ Halt \/ Exit)

\* C21: a script for which parsing or scope resolution reported an error is
\* never compiled nor run: from the first error collected on, the compiler
\* and the VM stay as they were and nothing is printed by the program; once
\* the errors are reported, every one of them is printed as
\* `[error]: Parse: <msg>`, nothing else is, and the process ends with
\* status 1.
C21_ErrorsStopTheRun ==
    /\ [](errors # <<>> =>
             /\ mode \in {"parse", "resolve"}
             /\ vout = <<>> /\ vstatus = "idle" /\ chunk = NewChunk(0))
    /\ Reported ~>
           /\ proc.exited /\ proc.status = 1
           /\ proc.stderr = [i \in 1..Len(errors) |->
                                Line("[error]: Parse: ", errors[i])]

\* Parser::parse returned two errors or more, and the process has ended
C21_Witness ==
    /\ mode = "parse" /\ presult = "Err" /\ Len(errors) >= 2
    /\ proc.exited /\ proc.status = 1
    /\ proc.stderr = [i \in 1..Len(errors) |-> Line("[error]: Parse: ", errors[i])]


(***************************************************************************)
(* SpecStart: the VM is brought up on a program.  Compiler::compile        *)
(* interns the strings of the program in the arena and puts their handles  *)
(* in the constant pool of the chunk; VM::new allocates the function       *)
(* object of main.  The arena is a set of objects; a handle is the object  *)
(* it was given for, and it dereferences for as long as the object is in   *)
(* the arena.                                                              *)
(***************************************************************************)
\* the handles an object holds: those of the constant pool of its chunk
Refs(obj, ch) ==
    IF is_function(obj) THEN {ch.constants[i] : i \in 1..Len(ch.constants)} ELSE {}

\* the mark phase: the roots and the objects they refer to
Marked(roots, ch) == roots \cup UNION {Refs(r, ch) : r \in roots}

\* Gc::allocate(obj, roots): a collection, when one is due, frees every
\* object that is not marked, and then the object is placed
allocate(objects, obj, roots, ch, collects) ==
    (IF collects THEN objects \cap Marked(roots, ch) ELSE objects) \cup {obj}

InitStart ==
    /\ mode = "compile"
    /\ program \in Programs
    /\ epc = 1 /\ env = EnvNew /\ eout = <<>> /\ elog = <<>>
    /\ estatus = "idle" /\ lastblock = NoBlock /\ lastexpr = NoExpr
    /\ ParserIdle /\ VMIdle /\ HostIdle

\* Compiler::compile: Chunk::string_constant allocates each string once
CompileChunk ==
    /\ mode = "compile"
    /\ LET c == compile(program, chunk.base) IN
       /\ chunk' = c.chunk
       /\ heap' = heap \cup {c.chunk.constants[i] : i \in 1..Len(c.chunk.constants)}
       /\ vstatus' = IF c.st = "ok" THEN "idle" ELSE "panic"
       /\ mode' = IF c.st = "ok" THEN "new" ELSE "vm"
    /\ UNCHANGED <<proc, compiler, probe, frames, stack, globals, vout, vlog, steps,
                   lastop, pvars, evars>>

\* VM::new: `gc.allocate(obj, roots_fn)` with the roots_fn of VM::new, which
\* yields no root; whether a collection is due is up to the collector
VMNew ==
    /\ mode = "new"
    /\ \E collects \in BOOLEAN :
           heap' = allocate(heap, Function("main"), {}, chunk, collects)
    /\ frames' = <<NewFrame("main", 0)>>
    /\ stack' = <<>>
    /\ globals' = NoGlobals
    /\ vstatus' = "running"
    /\ mode' = "vm"
    /\ UNCHANGED <<proc, compiler, probe, chunk, vout, vlog, steps, lastop, pvars, evars>>

NextStart == CompileChunk \/ VMNew

SpecStart == InitStart /\ [][NextStart]_vars

\* C23: when VM::run begins, every handle of the constant pool of main
\* still dereferences: no string the compiler interned was freed by a
\* collection during the allocation in VM::new.
C23_ConstantsSurviveStart ==
    (mode = "vm" /\ vstatus = "running") =>
        \A i \in 1..Len(chunk.constants) : chunk.constants[i] \in heap


(***************************************************************************)
(* SpecLocal: Compiler::resolve_local applied again and again to a         *)
(* compiler inside nested blocks.  The compiler starts with the locals of  *)
(* n enclosing blocks that each declare x, inside the innermost of them or *)
(* one block further in.  The depths it is called with reach beyond the    *)
(* blocks the compiler is in, where the subtraction of the depth from      *)
(* scope_depth overflows.                                                  *)
(***************************************************************************)
LocalNames == {"x", "y"}
LocalDepths == {0, 1, 2}
LocalCounts == {0, 1, 2, 253, 254, 255}

\* the locals after `{ var x; { var x; ..` to the depth n
NestedLocals(n) == [i \in 1..n |-> <<"x", i>>]

InitLocal ==
    /\ mode = "local"
    /\ \E n \in LocalCounts, inner \in {0, 1} :
           /\ n + inner >= 1
           /\ compiler = [NewCompiler(0) EXCEPT !.locals = NestedLocals(n),
                                                 !.scope_depth = n + inner]
    /\ probe = NoProbe
    /\ proc \in Builds /\ heap = {}
    /\ ParserIdle /\ EvalIdle /\ VMIdle

\* one call `self.resolve_local(var.name(), d)`
ResolveLocal ==
    /\ mode = "local" /\ compiler.st = "ok"
    /\ \E var \in LocalNames, d \in LocalDepths :
           /\ compiler' = resolve_local(compiler, var, d)
           /\ probe' = [called |-> TRUE, var |-> var, depth |-> d,
                        idx |-> LocalIdx(compiler, var, d),
                        before |-> compiler.locals]
    /\ UNCHANGED <<mode, proc, heap, pvars, evars, vmvars>>

NextLocal == ResolveLocal

SpecLocal == InitLocal /\ [][NextLocal]_vars

\* the (name, absolute depth) pair of the latest call
ProbeKey == <<probe.var, compiler.scope_depth - probe.depth>>
ProbeHit == \E i \in 1..Len(probe.before) : probe.before[i] = ProbeKey

\* C24: resolve_local(name, d) returns the index of the locals entry with
\* that name and the absolute depth scope_depth - d when there is one, and
\* leaves locals as they are; otherwise it appends exactly one entry and
\* returns its index.  No two entries of locals are the same pair, the index
\* returned is the position of the entry in locals, and a call fails only
\* when it needs more slots than 8 bits address: on a miss with 256 entries
\* held.  (A depth d above scope_depth has no absolute depth; a call with
\* one is outside the claim and may fail.)
C24_ResolveLocal ==
    probe.called =>
        /\ compiler.st = "ok" =>
               /\ IF ProbeHit
                  THEN compiler.locals = probe.before
                  ELSE compiler.locals = Append(probe.before, ProbeKey)
               /\ probe.idx < Len(compiler.locals)
               /\ compiler.locals[probe.idx + 1] = ProbeKey
               /\ \A i, j \in 1..Len(compiler.locals) :
                      compiler.locals[i] = compiler.locals[j] => i = j
        /\ (~ProbeHit /\ Len(probe.before) >= 256) => compiler.st = "panic"
        /\ compiler.st = "panic" =>
               \/ probe.depth > compiler.scope_depth
               \/ ~ProbeHit /\ Len(probe.before) >= 256


(***************************************************************************)
(* SpecImmediate: a number goes from the compiler to the VM.  emit_constant *)
(* writes Op::Immediate and the raw word of the number into a fresh chunk, *)
(* VM::new takes the chunk, and VM::run dispatches the one instruction.    *)
(***************************************************************************)
\* 16-bit pieces of the raw words: the two bytes of each differ
Limbs == {0, 258, 65280, 43981}
Raws == [1..4 -> Limbs] \cup {FloatRaw(n) : n \in (0 - 2)..2}

InitImmediate ==
    /\ mode = "compile"
    /\ compiler = NewCompiler(0)
    /\ \E raw \in Raws : probe = [called |-> FALSE, raw |-> raw]
    /\ proc \in Builds /\ heap = {}
    /\ ParserIdle /\ EvalIdle /\ VMIdle

\* Compiler::emit_constant on the number whose raw word is probe.raw, then
\* Compiler::compile returns the chunk and VM::new takes it
EmitImmediate ==
    /\ mode = "compile"
    /\ compiler' = emit_raw(compiler, probe.raw)
    /\ probe' = [probe EXCEPT !.called = TRUE]
    /\ chunk' = compiler'.chunk
    /\ frames' = <<NewFrame("main", 0)>>
    /\ vstatus' = "running"
    /\ mode' = "vm"
    /\ UNCHANGED <<proc, heap, stack, globals, vout, vlog, steps, lastop, pvars, evars>>

\* VM::run: the arm Op::Immediate of decode_op!
ReadImmediate == Fetch(Op.Immediate) /\ Become(Op.Immediate, immediate(Decoded, Code))

NextImmediate == EmitImmediate \/ ReadImmediate \/ Halt

SpecImmediate == InitImmediate /\ [][NextImmediate]_vars

\* C25: the eight bytes the compiler writes after Op::Immediate for a raw
\* word v, least significant byte first, read back by CallFrame::read_u64
\* give v again, and the ip has moved by exactly 8 past the opcode.
C25_ImmediateRoundTrip ==
    (mode = "vm" /\ lastop.op = Op.Immediate) =>
        /\ vstatus # "panic"
        /\ Len(stack) = 1
        /\ into_raw(peek(Current)) = probe.raw
        /\ frame(Current).ip = 1 + 8

\* a raw word whose eight bytes all differ from their neighbours was read
C25_Witness ==
    /\ mode = "vm" /\ lastop.op = Op.Immediate
    /\ probe.raw = <<258, 65280, 43981, 258>>
    /\ stack = <<from_raw(probe.raw)>>


(***************************************************************************)
(* SpecEarlier: the earlier parser (src/src/parser.rs).  Its scanner is a  *)
(* Peekable over items that are Ok(token) or Err(..) (ty "Error"); the     *)
(* token types Keyword(Print), Keyword(Var), ... are written "Print",      *)
(* "Var", ...  A parsing function returns [st, pos, node, msg] with st     *)
(* "ok", "err" (the Err the `?` operator passes up) or "panic" (an unwrap  *)
(* of None or of Err).                                                     *)
(***************************************************************************)
MaxEarlier == 3    \* tokens of the streams given to the earlier parser

EOk(p, node) == [st |-> "ok", pos |-> p, node |-> node, msg |-> ""]
EErr(p, msg) == [st |-> "err", pos |-> p, node |-> Literal(Nil), msg |-> msg]
EPanic(p) == [st |-> "panic", pos |-> p, node |-> Literal(Nil), msg |-> "unwrap"]

\* Parser::peek and Parser::peek_type of the earlier parser
earlier_peek(ts, p) ==
    IF p < Len(ts)
    THEN IF ts[p + 1].ty = "Error"
         THEN [ok |-> FALSE, ty |-> "Error", msg |-> "There was a scanning error"]
         ELSE [ok |-> TRUE, ty |-> ts[p + 1].ty, msg |-> ""]
    ELSE [ok |-> FALSE, ty |-> "None", msg |-> "UnexpectedEOF"]

\* Parser::advance of the earlier parser: scanner.next().unwrap().unwrap()
earlier_advance(ts, p) ==
    IF p < Len(ts) /\ ts[p + 1].ty # "Error"
    THEN [ok |-> TRUE, pos |-> p + 1, tok |-> ts[p + 1]]
    ELSE [ok |-> FALSE, pos |-> p, tok |-> Tok("None")]

\* Parser::has_next of the earlier parser: scanner.peek().is_some()
earlier_has_next(ts, p) == p < Len(ts)

\* `self.peek_type()?` of the earlier parser
EarlierPeek(ts, p, K(_)) ==
    IF earlier_peek(ts, p).ok THEN K(earlier_peek(ts, p).ty)
    ELSE EErr(p, earlier_peek(ts, p).msg)

\* the `?` operator on a result of the earlier parser
EarlierTry(r, K(_)) == IF r.st = "ok" THEN K(r) ELSE r

\* Parser::expect of the earlier parser
earlier_expect(ts, p, token_type, msg) ==
    EarlierPeek(ts, p, LAMBDA ty :
        IF ty = token_type THEN EOk(p + 1, Literal(Nil)) ELSE EErr(p, msg))

\* the patterns of the four instances of binary_expr_impl!: equality,
\* comparison, term, factor
earlier_patterns(level) ==
    CASE level = 1 -> {"BangEq", "EqualEq"}
      [] level = 2 -> {"GreaterThan", "GreaterThanEq", "LessThan", "LessThanEq"}
      [] level = 3 -> {"Plus", "Minus"}
      [] OTHER -> {"Slash", "Star"}

RECURSIVE earlier_binary_expr(_, _, _), earlier_binary_loop(_, _, _, _)
RECURSIVE earlier_unary(_, _), earlier_primary(_, _)

\* Parser::expression of the earlier parser
earlier_expression(ts, p) == earlier_binary_expr(1, ts, p)

\* self.$inner() of binary_expr_impl!
earlier_inner(level, ts, p) ==
    IF level = 4 THEN earlier_unary(ts, p)
    ELSE earlier_binary_expr(level + 1, ts, p)

\* binary_expr_impl!: `let mut expr = self.$inner()?;` and the loop
earlier_binary_expr(level, ts, p) ==
    EarlierTry(earlier_inner(level, ts, p),
               LAMBDA r : earlier_binary_loop(level, ts, r.pos, r.node))

\* binary_expr_impl!: `while let Ok(Token{ref ty, ..}) = self.peek()`
earlier_binary_loop(level, ts, p, expr) ==
    IF earlier_peek(ts, p).ok /\ earlier_peek(ts, p).ty \in earlier_patterns(level)
    THEN EarlierTry(earlier_inner(level, ts, p + 1),
                    LAMBDA rhs : earlier_binary_loop(level, ts, rhs.pos,
                                     Binary(ts[p + 1].ty, expr, rhs.node)))
    ELSE EOk(p, expr)

\* Parser::unary of the earlier parser
earlier_unary(ts, p) ==
    EarlierPeek(ts, p, LAMBDA ty :
        IF ty \in {"Bang", "Minus"}
        THEN EarlierTry(earlier_unary(ts, p + 1),
                        LAMBDA r : EOk(r.pos, Unary(ty, r.node)))
        ELSE earlier_primary(ts, p))

\* Parser::primary of the earlier parser
earlier_primary(ts, p) ==
    EarlierPeek(ts, p, LAMBDA ty :
        CASE ty = "Nil" -> EOk(p + 1, Literal(Nil))
          [] ty = "True" -> EOk(p + 1, Literal(True))
          [] ty = "False" -> EOk(p + 1, Literal(False))
          [] ty = "String" -> EOk(p + 1, Literal(String(ts[p + 1].value)))
          [] ty = "Number" -> EOk(p + 1, Literal(Number(ts[p + 1].n)))
          [] ty = "LeftParen" ->
                EarlierTry(earlier_expression(ts, p + 1), LAMBDA r :
                    EarlierPeek(ts, r.pos, LAMBDA close :
                        IF close = "RightParen" THEN EOk(r.pos + 1, Grouping(r.node))
                        ELSE EErr(r.pos, "Expect ')' after expression")))
          [] ty = "Identifier" -> EOk(p + 1, [k |-> "Var", token |-> ts[p + 1]])
          [] OTHER -> EErr(p, "Expected a literal or parenthesized expression"))

\* Parser::print_statement of the earlier parser
earlier_print_statement(ts, p) ==
    EarlierTry(earlier_expression(ts, p), LAMBDA value :
        EarlierTry(earlier_expect(ts, value.pos, "Semicolon", "Expected ';' after value"),
                   LAMBDA e : EOk(e.pos, SPrint(value.node))))

\* Parser::expression_statement of the earlier parser
earlier_expression_statement(ts, p) ==
    EarlierTry(earlier_expression(ts, p), LAMBDA expr :
        EarlierTry(earlier_expect(ts, expr.pos, "Semicolon", "Expected ';' after value"),
                   LAMBDA e : EOk(e.pos, SExpr(expr.node))))

\* Parser::statement of the earlier parser
earlier_statement(ts, p) ==
    EarlierPeek(ts, p, LAMBDA ty :
        IF ty = "Print" THEN earlier_print_statement(ts, p + 1)
        ELSE earlier_expression_statement(ts, p))

\* Parser::var_decl of the earlier parser, after `let ident = self.advance()`
\* took the token ident
earlier_var_init(ts, p, ident) ==
    EarlierPeek(ts, p, LAMBDA ty :
        EarlierTry(IF ty = "Equal" THEN earlier_expression(ts, p)
                   ELSE EOk(p, Literal(Nil)),
                   LAMBDA init :
            EarlierTry(earlier_expect(ts, init.pos, "Semicolon",
                                      "Expected semicolon after variable declaration"),
                       LAMBDA e : EOk(e.pos, [k |-> "SVar", ident |-> ident,
                                              expr |-> init.node]))))

\* Parser::var_decl of the earlier parser: expect consumes the identifier,
\* and advance takes the token after it
earlier_var_decl(ts, p) ==
    EarlierTry(earlier_expect(ts, p, "Identifier",
                              "Expected identifier after keyword 'var'"),
               LAMBDA e :
        IF earlier_advance(ts, e.pos).ok
        THEN earlier_var_init(ts, e.pos + 1, earlier_advance(ts, e.pos).tok)
        ELSE EPanic(e.pos))

\* Parser::declaration of the earlier parser
earlier_declaration(ts, p) ==
    EarlierPeek(ts, p, LAMBDA ty :
        IF ty = "Var" THEN earlier_var_decl(ts, p + 1) ELSE earlier_statement(ts, p))

\* the keywords at which synchronize of the earlier parser returns
EarlierStops == {"Class", "Fun", "Var", "For", "If", "While", "Return", "Print"}

RECURSIVE earlier_synchronize(_, _)
\* Parser::synchronize of the earlier parser: whether it returned, and the
\* position it left the scanner at
earlier_synchronize(ts, p) ==
    IF ~earlier_peek(ts, p).ok THEN [returned |-> TRUE, pos |-> p]
    ELSE IF ts[p + 1].ty = "Semicolon" THEN [returned |-> TRUE, pos |-> p + 1]
    ELSE IF ~earlier_peek(ts, p + 1).ok THEN [returned |-> FALSE, pos |-> p + 1]
    ELSE IF earlier_peek(ts, p + 1).ty \in EarlierStops
         THEN [returned |-> TRUE, pos |-> p + 1]
    ELSE earlier_synchronize(ts, p + 1)

\* the streams: every sequence of up to MaxEarlier items, as it is and with
\* the EOF token the scanner ends its output with
EarlierAlphabet ==
    {TokNumber(0)} \cup
    {Tok(ty) : ty \in {"Semicolon", "Print", "Var", "Identifier", "Equal", "Minus",
                       "LeftParen", "RightParen", "While", "Error"}}
EarlierStreams ==
    LET body == UNION {[1..n -> EarlierAlphabet] : n \in 0..MaxEarlier} IN
    body \cup {Append(ts, Tok("EOF")) : ts \in body}

InitEarlier ==
    /\ mode = "earlier"
    /\ tokens \in EarlierStreams
    /\ pos = 0 /\ statements = <<>> /\ errors = <<>>
    /\ presult = "running" /\ lastcall = NoCall
    /\ EvalIdle /\ VMIdle /\ HostIdle

\* Parser::parse of the earlier parser, the arm Ok(stmt)
EarlierOk ==
    /\ mode = "earlier" /\ presult = "running"
    /\ earlier_has_next(tokens, pos)
    /\ LET d == earlier_declaration(tokens, pos) IN
       /\ d.st = "ok"
       /\ statements' = Append(statements, d.node)
       /\ pos' = d.pos
       /\ lastcall' = [called |-> TRUE, ok |-> TRUE, start |-> pos,
                       errpos |-> d.pos, end |-> d.pos]
    /\ UNCHANGED <<hvars, mode, tokens, errors, presult, evars, vmvars>>

\* Parser::parse of the earlier parser, the arm Err(_): synchronize returns
EarlierErr ==
    /\ mode = "earlier" /\ presult = "running"
    /\ earlier_has_next(tokens, pos)
    /\ LET d == earlier_declaration(tokens, pos) IN
       /\ d.st = "err"
       /\ earlier_synchronize(tokens, d.pos).returned
       /\ pos' = earlier_synchronize(tokens, d.pos).pos
       /\ lastcall' = [called |-> TRUE, ok |-> FALSE, start |-> pos,
                       errpos |-> d.pos, end |-> pos']
    /\ UNCHANGED <<hvars, mode, tokens, statements, errors, presult, evars, vmvars>>

\* Parser::parse of the earlier parser: an unwrap in var_decl or in
\* synchronize panics
EarlierPanic ==
    /\ mode = "earlier" /\ presult = "running"
    /\ earlier_has_next(tokens, pos)
    /\ LET d == earlier_declaration(tokens, pos) IN
       /\ \/ d.st = "panic"
          \/ d.st = "err" /\ ~earlier_synchronize(tokens, d.pos).returned
       /\ presult' = "panic"
       /\ pos' = IF d.st = "panic" THEN d.pos
                 ELSE earlier_synchronize(tokens, d.pos).pos
       /\ lastcall' = [called |-> TRUE, ok |-> FALSE, start |-> pos,
                       errpos |-> d.pos, end |-> pos']
    /\ UNCHANGED <<hvars, mode, tokens, statements, errors, evars, vmvars>>

\* Parser::parse of the earlier parser, after the loop: Ok(statements)
EarlierReturn ==
    /\ mode = "earlier" /\ presult = "running"
    /\ ~earlier_has_next(tokens, pos)
    /\ presult' = "Ok"
    /\ UNCHANGED <<hvars, mode, tokens, pos, statements, errors, lastcall, evars, vmvars>>

NextEarlier == EarlierOk \/ EarlierErr \/ EarlierPanic \/ EarlierReturn

SpecEarlier == InitEarlier /\ [][NextEarlier]_vars

\* C30: synchronize of the earlier parser returns normally on every token
\* stream, having consumed a `;` last, or with one of the keywords class,
\* fun, var, for, if, while, return, print next, or with the tokens
\* exhausted; so no call of Parser::parse ends in a panic.
C30_SynchronizeReturns ==
    /\ presult # "panic"
    /\ (lastcall.called /\ ~lastcall.ok) =>
          \/ lastcall.end > lastcall.errpos /\ tokens[lastcall.end].ty = "Semicolon"
          \/ earlier_peek(tokens, lastcall.end).ok
                /\ earlier_peek(tokens, lastcall.end).ty \in EarlierStops
          \/ ~earlier_has_next(tokens, lastcall.end)
====
